---------------------------- MODULE Spec2Model ----------------------------
(***************************************************************************)
(* Model of the contacts extractor of Python_iOS_Rescue_Tools               *)
(* (src/Python_iOS/extract_ios_contacts.py): the backup catalog resolver    *)
(* (find_contact_dbs, pick_best_contacts_db, backup_file_path), schema      *)
(* detection (read_contacts_from_db) and the two loaders                    *)
(* (load_contacts_from_ab_schema, load_contacts_from_coredata_schema).      *)
(*                                                                         *)
(* Python str values are TLA+ strings; SQLite column values are tagged      *)
(* records so that NULL, TEXT and INTEGER stay distinct, as they are for    *)
(* the code's `is None` and isinstance tests.                               *)
(***************************************************************************)
EXTENDS Integers, Sequences, FiniteSets, TLC

VARIABLES
    pc,          \* position of the running function
    \* ---- load_contacts_from_ab_schema ----
    persons,     \* person rows fetched from ABPerson (ids, in row order)
    label_map,   \* numeric label id -> text, from ABMultiValueLabel
    n_rows,      \* number of ABMultiValue rows iterated so far
    cur,         \* the row the loop body last ran on (r), or NoRow
    phones, emails, addresses, urls,   \* owner id -> list of values
    contacts,    \* the list the loader returns
    \* ---- load_contacts_from_coredata_schema ----
    m_cols,      \* column names of the person table (PRAGMA table_info)
    m_table,     \* rows of the person table, in row order
    m_persons,   \* rows fetched by the person query (id, is_deleted)
    m_key,       \* index into map_defs of the relation being read
    n_child,     \* number of child rows iterated so far
    m_cur,       \* the child row the loop body last ran on, or NoChild
    m_read,      \* the child rows read so far, each with its relation
    child_maps,  \* relation -> owner id -> list of values
    \* ---- backup_file_path, find_contact_dbs, pick_best_contacts_db ----
    backup_dir,  \* the backup root
    file_id,     \* backup_file_path's file_id argument
    db_path,     \* the path computed by backup_file_path
    manifest,    \* rows of the catalog's Files table, in row order
    disk,        \* the paths that are regular files on disk
    pat,         \* index of the LIKE pattern queried next
    rows,        \* find_contact_dbs: the matches accumulated so far
    candidates,  \* find_contact_dbs's result (unique)
    best,        \* the top entry after the sort
    result,      \* what pick_best_contacts_db returns
    \* ---- read_contacts_from_db ----
    tables,      \* names of the tables in sqlite_master
    conn,        \* state of the connection to the contacts database
    probe,       \* index of the candidate person table tested next
    loader,      \* the loader read_contacts_from_db dispatched to
    person_table,\* the Core Data person table chosen, or None
    raised,      \* the exception that left read_contacts_from_db, or None
    \* ---- load_contacts_from_coredata_schema: person query ----
    q_cols,      \* column names of the person table
    q_table,     \* rows of the person table, in row order
    q_sel,       \* role -> the column pick_col chose, or NoCol
    q_persons,   \* rows fetched by the person query
    q_error,     \* the exception the person query raised, or None
    \* ---- locate_child ----
    c_key,       \* index into map_defs of the relation being located
    c_schema,    \* child table name -> its column names, for the tables that exist
    c_i,         \* index of the candidate table tested next
    c_found,     \* what locate_child returned (t, o, v)
    \* ---- load_contacts_from_ab_schema: queries and norm_label ----
    l_tables,    \* names of the tables of the legacy database
    l_person_cols,\* column names of the person table
    l_label_cols,\* column names of ABMultiValueLabel
    l_label_rows,\* rows of ABMultiValueLabel, in ROWID order from 1
    l_unreadable,\* reading ABMultiValueLabel raises sqlite3.DatabaseError
    l_raw,       \* the label cell of a multi-value row
    l_label,     \* what norm_label returned for l_raw, or None
    l_error,     \* the exception that left the loader, or None
    \* ---- main ----
    catalog_file,\* Manifest.db: missing, ok, not_a_database or no_files_table
    record_file, \* the contacts database file: ok or not_a_database
    record_cols_ok,\* the person table has the columns the person query names
    record_empty,\* the person table has no rows
    writable,    \* the output files can be written
    catalog_conn,\* state of the connection to Manifest.db
    catalog_mode,\* the mode Manifest.db was opened in
    record_mode, \* the mode the contacts database was opened in
    exit_status, \* the exit status of the process, or None while it runs
    stderr,      \* the kind of diagnostic written to stderr
    \* ---- parse_manifest ----
    pm_found,    \* os.walk finds a Manifest.db under source
    pm_catalog_table,\* name of the file-listing table in Manifest.db, or the empty string
    pm_cols_ok,  \* the table has the columns fileID, domain, relativePath
    pm_writable, \* the output files can be written
    pm_conn,     \* state of the connection parse_manifest opened
    pm_mode,     \* the mode that connection was opened in
    pm_cand,     \* index of the table name tried next
    pm_table,    \* table_name, or None
    pm_rows,     \* the rows read from the catalog
    pm_index,    \* the index parse_manifest returned, or None
    pm_raised,   \* the exception that left parse_manifest, or None
    \* ---- load_contacts_from_ab_schema, rows read ----
    mv_read,     \* the ABMultiValue rows the cursor has yielded so far, in row order
    \* ---- vcard_escape ----
    esc_in,      \* the argument vcard_escape was called with
    esc_out,     \* what vcard_escape returned
    \* ---- pick_best_contacts_db called again ----
    calls,       \* completed calls of pick_best_contacts_db on the same catalog and directory
    first_result \* what the first call returned

legacyVars == <<persons, label_map, n_rows, cur, phones, emails, addresses, urls>>
modernVars == <<m_cols, m_table, m_persons, m_key, n_child, m_cur, m_read, child_maps>>

resolverVars == <<backup_dir, file_id, db_path, manifest, disk, pat, rows, candidates, best, result>>

detectVars == <<tables, conn, probe, loader, person_table, raised>>

projVars == <<q_cols, q_table, q_sel, q_persons, q_error>>

locateVars == <<c_key, c_schema, c_i, c_found>>

queryVars == <<l_tables, l_person_cols, l_label_cols, l_label_rows, l_unreadable, l_raw, l_label, l_error>>

mainVars == <<catalog_file, record_file, record_cols_ok, record_empty, writable, catalog_conn, catalog_mode, record_mode, exit_status, stderr>>

manifestVars == <<pm_found, pm_catalog_table, pm_cols_ok, pm_writable, pm_conn, pm_mode, pm_cand, pm_table, pm_rows, pm_index, pm_raised>>

rowsVars == <<mv_read>>

escapeVars == <<esc_in, esc_out>>

repeatVars == <<calls, first_result>>

vars == <<pc, contacts, legacyVars, modernVars, resolverVars, detectVars, projVars, locateVars, queryVars, mainVars, manifestVars, rowsVars, escapeVars, repeatVars>>

-----------------------------------------------------------------------------
(* Python str operations                                                   *)

UpperChars == "ABCDEFGHIJKLMNOPQRSTUVWXYZ"
LowerChars == "abcdefghijklmnopqrstuvwxyz"
DigitChars == "0123456789"
SpaceChars == " "

CharAt(s, i) == SubSeq(s, i, i)

\* c in s, for a one-character c
IsCharOf(c, s) == \E i \in 1..Len(s) : CharAt(s, i) = c

\* sub in s
Contains(sub, s) ==
    \E i \in 1..(Len(s) - Len(sub) + 1) : SubSeq(s, i, i + Len(sub) - 1) = sub

LowerChar(c) ==
    IF IsCharOf(c, UpperChars)
    THEN CharAt(LowerChars, CHOOSE i \in 1..Len(UpperChars) : CharAt(UpperChars, i) = c)
    ELSE c

RECURSIVE Lower(_)
\* s.lower()
Lower(s) == IF s = "" THEN "" ELSE LowerChar(CharAt(s, 1)) \o Lower(SubSeq(s, 2, Len(s)))

RECURSIVE LStrip(_)
LStrip(s) ==
    IF s # "" /\ IsCharOf(CharAt(s, 1), SpaceChars) THEN LStrip(SubSeq(s, 2, Len(s))) ELSE s

RECURSIVE RStrip(_)
RStrip(s) ==
    IF s # "" /\ IsCharOf(CharAt(s, Len(s)), SpaceChars)
    THEN RStrip(SubSeq(s, 1, Len(s) - 1)) ELSE s

\* s.strip()
Strip(s) == RStrip(LStrip(s))

\* sum(ch.isdigit() for ch in s)
DigitCount(s) == Cardinality({i \in 1..Len(s) : IsCharOf(CharAt(s, i), DigitChars)})

RECURSIVE StrNat(_)
StrNat(k) == IF k < 10 THEN CharAt(DigitChars, k + 1)
             ELSE StrNat(k \div 10) \o CharAt(DigitChars, (k % 10) + 1)

\* str(k) of a Python int
StrInt(k) == IF k < 0 THEN "-" \o StrNat(0 - k) ELSE StrNat(k)

-----------------------------------------------------------------------------
(* SQLite column values as sqlite3 hands them to Python                    *)

SqlNull == [t |-> "null"]
SqlText(s) == [t |-> "str", v |-> s]
SqlInt(k) == [t |-> "int", v |-> k]

IsNone(x) == x.t = "null"
IsStr(x) == x.t = "str"
IsInt(x) == x.t = "int"

\* str(x) for a non-None column value
PyStr(x) == IF IsInt(x) THEN StrInt(x.v) ELSE x.v


-----------------------------------------------------------------------------
(* load_contacts_from_ab_schema: the legacy AddressBook loader             *)

MaxRows == 1                 \* ABMultiValue rows iterated in one run

MinPhoneDigits == 7

NoRow == [record_id |-> 0, property |-> 0, value |-> SqlNull, label |-> SqlNull]

RecordIds == {1, 2}

\* The person tables a run may read: ABPerson row ids in row order.
PersonTables == { <<1>>, <<2, 1>> }

\* The label maps lines 108-118 can leave behind: empty when ABMultiValueLabel
\* is absent, unreadable or has no usable column; otherwise ROWID -> text.
LabelMaps == { <<>>, <<" iPhone">> }

LabelValues == { SqlNull, SqlText("Mobile "), SqlText("email address"), SqlText("E-Mail"),
                 SqlText("homepage"), SqlInt(1) }
PropertyValues == { 0, 1, 3, 4, 6, 7 }
ValueValues == { SqlNull, SqlText(""), SqlText(" "), SqlText("a@b"), SqlText("5551234 "),
                 SqlText("x7"), SqlInt(5551234) }

MVRows == [record_id : RecordIds, property : PropertyValues, value : ValueValues,
           label : LabelValues]

\* label_map.get(raw, str(raw))
LabelMapGet(map, raw) == IF raw \in DOMAIN map THEN map[raw] ELSE StrInt(raw)

\* norm_label(raw), lines 131-140
norm_label(map, raw) ==
    IF IsNone(raw) THEN ""
    ELSE IF IsInt(raw) THEN Lower(Strip(LabelMapGet(map, raw.v)))
    ELSE Lower(Strip(PyStr(raw)))

\* lines 150-153
is_phone(label, prop) ==
    Contains("phone", label) \/ Contains("mobile", label) \/ Contains("cell", label)
        \/ prop \in {3, 7}
is_email(label, prop) ==
    Contains("email", label) \/ Contains("e-mail", label) \/ prop \in {1, 4}
is_addr(label, prop) == Contains("address", label) \/ prop = 6
is_url(label, prop) == Contains("url", label) \/ Contains("homepage", label)

\* shape_of without the digit-count test: any unlabelled text without "@" is a phone
shape_of_any_text(label, prop, val) ==
    IF is_phone(label, prop) \/ is_email(label, prop) \/ is_addr(label, prop)
           \/ is_url(label, prop)
    THEN ""
    ELSE IF ~IsStr(val) THEN ""
    ELSE IF Contains("@", val.v) THEN "emails"
    ELSE "phones"

\* lines 155-160: the value-shape fallback, "" when it does not apply
shape_of(label, prop, val) ==
    IF is_phone(label, prop) \/ is_email(label, prop) \/ is_addr(label, prop)
           \/ is_url(label, prop)
    THEN ""
    ELSE IF ~IsStr(val) THEN ""
    ELSE IF Contains("@", val.v) THEN "emails"
    ELSE IF DigitCount(val.v) >= MinPhoneDigits THEN "phones"
    ELSE ""

\* destination with the e-mail test ahead of the phone test
destination_email_first(map, r) ==
    IF IsNone(r.value) THEN ""
    ELSE LET label == norm_label(map, r.label)
             prop  == r.property
             shape == shape_of(label, prop, r.value)
             phone == is_phone(label, prop) \/ shape = "phones"
             email == is_email(label, prop) \/ shape = "emails"
         IN IF Strip(PyStr(r.value)) = "" THEN ""
            ELSE IF email THEN "emails"
            ELSE IF phone THEN "phones"
            ELSE IF is_addr(label, prop) THEN "addresses"
            ELSE IF is_url(label, prop) THEN "urls"
            ELSE ""

\* lines 145-173: the collection the row's value is appended to, "" when the
\* row is skipped
destination(map, r) ==
    IF IsNone(r.value) THEN ""
    ELSE LET label == norm_label(map, r.label)
             prop  == r.property
             shape == shape_of(label, prop, r.value)
             phone == is_phone(label, prop) \/ shape = "phones"
             email == is_email(label, prop) \/ shape = "emails"
         IN IF Strip(PyStr(r.value)) = "" THEN ""
            ELSE IF phone THEN "phones"
            ELSE IF email THEN "emails"
            ELSE IF is_addr(label, prop) THEN "addresses"
            ELSE IF is_url(label, prop) THEN "urls"
            ELSE ""

\* sval, line 162
sval_of(r) == Strip(PyStr(r.value))

\* AppendTo that skips a value the owner's list already holds
AppendTo_dedup(coll, name, dest, rid, s) ==
    IF dest = name /\ \A e \in 1..Len(coll[rid]) : coll[rid][e] # s
    THEN [coll EXCEPT ![rid] = Append(@, s)] ELSE coll

\* AppendTo that appends the value to the list of every owner
AppendTo_every_owner(coll, name, dest, rid, s) ==
    IF dest = name THEN [i \in DOMAIN coll |-> Append(coll[i], s)] ELSE coll

\* collection[rid].append(sval) on the collection named by dest
AppendTo(coll, name, dest, rid, s) ==
    IF dest = name THEN [coll EXCEPT ![rid] = Append(@, s)] ELSE coll

EmptyMap == [i \in RecordIds |-> <<>>]

\* destination and sval_of of every row the cursor can yield, per label map
DestTable == [m \in LabelMaps |-> [r \in MVRows |-> destination(m, r)]]
SvalTable == [r \in MVRows |-> IF IsNone(r.value) THEN "" ELSE sval_of(r)]

\* the Core Data loader's variables while it is not running
NoChild == [owner |-> 0, value |-> SqlNull]
Relations == <<"phones", "emails", "addresses", "urls">>
EmptyChildMaps == [k \in {Relations[i] : i \in 1..Len(Relations)} |-> EmptyMap]

LegacyIdle ==
    /\ persons = <<>> /\ label_map = <<>> /\ n_rows = 0 /\ cur = NoRow
    /\ phones = EmptyMap /\ emails = EmptyMap /\ addresses = EmptyMap /\ urls = EmptyMap

\* Python's None, and a str, as a function result
None == [kind |-> "None"]
Str(x) == [kind |-> "str", v |-> x]

NoEntry == [fileID |-> "", relativePath |-> ""]

\* the resolver's variables while it is not running
ResolverIdle ==
    /\ backup_dir = "" /\ file_id = "" /\ db_path = None /\ manifest = <<>> /\ disk = {}
    /\ pat = 0 /\ rows = <<>> /\ candidates = <<>> /\ best = NoEntry /\ result = None

\* read_contacts_from_db's variables while it is not running
DetectIdle ==
    /\ tables = {} /\ conn = "none" /\ probe = 0 /\ loader = ""
    /\ person_table = None /\ raised = None

ModernIdle ==
    /\ m_cols = {} /\ m_table = <<>> /\ m_persons = <<>> /\ m_key = 0
    /\ n_child = 0 /\ m_cur = NoChild /\ m_read = <<>> /\ child_maps = EmptyChildMaps

ProjectIdle ==
    /\ q_cols = {} /\ q_table = <<>> /\ q_sel = <<>> /\ q_persons = <<>> /\ q_error = None

LocateIdle ==
    /\ c_key = 0 /\ c_schema = <<>> /\ c_i = 0 /\ c_found = <<>>

QueriesIdle ==
    /\ l_tables = {} /\ l_person_cols = {} /\ l_label_cols = {} /\ l_label_rows = <<>>
    /\ l_unreadable = FALSE /\ l_raw = SqlNull /\ l_label = None /\ l_error = None

MainIdle ==
    /\ catalog_file = "" /\ record_file = "" /\ record_cols_ok = FALSE /\ record_empty = FALSE
    /\ writable = FALSE /\ catalog_conn = "none" /\ catalog_mode = "" /\ record_mode = ""
    /\ exit_status = None /\ stderr = ""

ManifestIdle ==
    /\ pm_found = FALSE /\ pm_catalog_table = "" /\ pm_cols_ok = FALSE /\ pm_writable = FALSE
    /\ pm_conn = "none" /\ pm_mode = "" /\ pm_cand = 0 /\ pm_table = None /\ pm_rows = <<>>
    /\ pm_index = None /\ pm_raised = None

RowsIdle ==
    mv_read = <<>>

EscapeIdle ==
    esc_in = None /\ esc_out = None

RepeatIdle ==
    calls = 0 /\ first_result = None

LegacyInit ==
    /\ pc = "fetch"
    /\ persons \in PersonTables
    /\ label_map \in LabelMaps
    /\ n_rows = 0
    /\ cur = NoRow
    /\ phones = EmptyMap /\ emails = EmptyMap /\ addresses = EmptyMap /\ urls = EmptyMap
    /\ contacts = <<>>
    /\ ModernIdle
    /\ ResolverIdle
    /\ DetectIdle
    /\ ProjectIdle
    /\ LocateIdle
    /\ QueriesIdle
    /\ MainIdle
    /\ ManifestIdle
    /\ RowsIdle
    /\ EscapeIdle
    /\ RepeatIdle

\* `for r in mv_rows`, line 142: the cursor yields the next row
FetchRow ==
    /\ pc = "fetch"
    /\ n_rows < MaxRows
    /\ cur' \in MVRows
    /\ n_rows' = n_rows + 1
    /\ pc' = "body"
    /\ UNCHANGED <<persons, label_map, phones, emails, addresses, urls, contacts>>
    /\ UNCHANGED <<modernVars, resolverVars, detectVars, projVars, locateVars, queryVars, mainVars, manifestVars, rowsVars, escapeVars, repeatVars>>

\* the loop body on r, lines 143-173
ClassifyRow ==
    /\ pc = "body"
    /\ LET dest == DestTable[label_map][cur]
           rid  == cur.record_id
           s    == SvalTable[cur]
       IN /\ phones' = AppendTo(phones, "phones", dest, rid, s)
          /\ emails' = AppendTo(emails, "emails", dest, rid, s)
          /\ addresses' = AppendTo(addresses, "addresses", dest, rid, s)
          /\ urls' = AppendTo(urls, "urls", dest, rid, s)
    /\ pc' = "next"
    /\ UNCHANGED <<persons, label_map, n_rows, cur, contacts>>
    /\ UNCHANGED <<modernVars, resolverVars, detectVars, projVars, locateVars, queryVars, mainVars, manifestVars, rowsVars, escapeVars, repeatVars>>

\* back to the head of the loop
NextRow ==
    /\ pc = "next"
    /\ cur' = NoRow
    /\ pc' = "fetch"
    /\ UNCHANGED <<persons, label_map, n_rows, phones, emails, addresses, urls, contacts>>
    /\ UNCHANGED <<modernVars, resolverVars, detectVars, projVars, locateVars, queryVars, mainVars, manifestVars, rowsVars, escapeVars, repeatVars>>

\* phones.get(p["id"], [])
MapGet(coll, id) == IF id \in DOMAIN coll THEN coll[id] ELSE <<>>

\* lines 175-189, once the cursor is exhausted: one contact per person row
BuildContacts ==
    /\ pc = "fetch"
    /\ contacts' = [i \in 1..Len(persons) |->
                      [id |-> persons[i],
                       phones |-> MapGet(phones, persons[i]),
                       emails |-> MapGet(emails, persons[i]),
                       addresses |-> MapGet(addresses, persons[i]),
                       urls |-> MapGet(urls, persons[i])]]
    /\ pc' = "returned"
    /\ UNCHANGED <<persons, label_map, n_rows, cur, phones, emails, addresses, urls>>
    /\ UNCHANGED <<modernVars, resolverVars, detectVars, projVars, locateVars, queryVars, mainVars, manifestVars, rowsVars, escapeVars, repeatVars>>

Next == FetchRow \/ ClassifyRow \/ NextRow \/ BuildContacts

Spec == LegacyInit /\ [][Next]_vars

-----------------------------------------------------------------------------
(* Properties of the legacy loader                                         *)

\* the loop body ran on cur in this step
ClassifyStep == pc = "body" /\ pc' = "next"

\* new is old with exactly one value appended to owner rid's list
GrewAt(old, new, rid) ==
    /\ Len(new[rid]) = Len(old[rid]) + 1
    /\ SubSeq(new[rid], 1, Len(old[rid])) = old[rid]
    /\ \A j \in RecordIds \ {rid} : new[j] = old[j]

\* the row's value is neither NULL nor empty after trimming
HasValue(r) == ~IsNone(r.value) /\ Strip(PyStr(r.value)) # ""

PhoneLabelled(map, r) ==
    LET l == norm_label(map, r.label)
    IN Contains("phone", l) \/ Contains("mobile", l) \/ Contains("cell", l)
           \/ r.property = 3 \/ r.property = 7
EmailLabelled(map, r) ==
    LET l == norm_label(map, r.label)
    IN Contains("email", l) \/ Contains("e-mail", l) \/ r.property = 1 \/ r.property = 4
AddressLabelled(map, r) == Contains("address", norm_label(map, r.label)) \/ r.property = 6
UrlLabelled(map, r) ==
    LET l == norm_label(map, r.label) IN Contains("url", l) \/ Contains("homepage", l)

\* the earliest of the four label/property rules the row satisfies, "" if none
FirstRule(map, r) ==
    IF PhoneLabelled(map, r) THEN "phones"
    ELSE IF EmailLabelled(map, r) THEN "emails"
    ELSE IF AddressLabelled(map, r) THEN "addresses"
    ELSE IF UrlLabelled(map, r) THEN "urls"
    ELSE ""

FirstRuleTable == [m \in LabelMaps |-> [r \in MVRows |-> IF HasValue(r) THEN FirstRule(m, r) ELSE ""]]

\* C1: a multi-value row with a non-empty value that satisfies a label/property
\* rule is appended to the collection of the earliest rule it satisfies
\* (phone, email, address, url) under its owner id, and to no other collection.
C1_FirstMatchWins ==
    [][ClassifyStep =>
         LET rule == FirstRuleTable[label_map][cur]
             rid  == cur.record_id
         IN rule # "" =>
              /\ IF rule = "phones" THEN GrewAt(phones, phones', rid) ELSE phones' = phones
              /\ IF rule = "emails" THEN GrewAt(emails, emails', rid) ELSE emails' = emails
              /\ IF rule = "addresses" THEN GrewAt(addresses, addresses', rid)
                                       ELSE addresses' = addresses
              /\ IF rule = "urls" THEN GrewAt(urls, urls', rid) ELSE urls' = urls]_vars

\* a row labelled "Mobile " with the e-mail property code 4 was filed as a phone
C1_Witness ==
    /\ pc = "next"
    /\ cur.label = SqlText("Mobile ") /\ cur.property = 4 /\ cur.value = SqlText("5551234 ")
    /\ phones[cur.record_id] = <<"5551234">>
    /\ emails[cur.record_id] = <<>>

PhoneLabelledTable == [m \in LabelMaps |-> [r \in MVRows |-> PhoneLabelled(m, r)]]
EmailLabelledTable == [m \in LabelMaps |-> [r \in MVRows |-> EmailLabelled(m, r)]]

\* the returned contacts carry, per person, the lists built by the loop
ReturnsPhoneLists ==
    pc' = "returned" =>
        \A i \in 1..Len(contacts') : contacts'[i].phones = MapGet(phones, contacts'[i].id)

\* C2 (as stated): every value appended to a phones list has at least 7 digit
\* characters or comes from a row with an explicit phone label or phone property
\* code, and is never an e-mail (a value containing "@", or a row carrying an
\* e-mail label or e-mail property code).
C2_PhonesNeverEmails ==
    [][/\ ClassifyStep /\ phones' # phones =>
            LET v == phones'[cur.record_id][Len(phones'[cur.record_id])]
            IN /\ DigitCount(v) >= 7 \/ PhoneLabelledTable[label_map][cur]
               /\ ~(Contains("@", v) \/ EmailLabelledTable[label_map][cur])
        /\ ReturnsPhoneLists]_vars

\* C2 (amended): every value appended to a phones list has at least 7 digit
\* characters or comes from a row with an explicit phone label or phone property
\* code; a value that is an e-mail (contains "@", or its row carries an e-mail
\* label or property code) is in a phones list only when its row also carries an
\* explicit phone label or phone property code.
C2_PhonesExplicitOrDigits ==
    [][/\ ClassifyStep /\ phones' # phones =>
            LET v == phones'[cur.record_id][Len(phones'[cur.record_id])]
            IN /\ DigitCount(v) >= 7 \/ PhoneLabelledTable[label_map][cur]
               /\ (Contains("@", v) \/ EmailLabelledTable[label_map][cur])
                      => PhoneLabelledTable[label_map][cur]
        /\ ReturnsPhoneLists]_vars

\* an unlabelled seven-digit value was filed as a phone by its shape
C2_Witness ==
    /\ pc = "next"
    /\ cur.label = SqlNull /\ cur.property = 0 /\ cur.value = SqlText("5551234 ")
    /\ phones[cur.record_id] = <<"5551234">>

-----------------------------------------------------------------------------
(* load_contacts_from_coredata_schema: the Core Data Z* loader             *)

MaxChildRows == 2            \* child-table rows iterated in one run

NoCol == ""                  \* pick_col's None

DelAliases == <<"ZISDELETED", "ZTRASHED", "ZMARKEDFORDELETE">>

SeqRange(q) == {q[i] : i \in 1..Len(q)}

\* The person tables a run may read: Z_PK plus any of the deletion-flag columns;
\* person 1 carries 0 or 1 in each flag column, person 2 carries NULL.
ModernColumnSets == {{"Z_PK"} \cup S : S \in SUBSET SeqRange(DelAliases)}
ModernTables(cols) ==
    {<<[id |-> 1, cells |-> f], [id |-> 2, cells |-> [c \in cols \ {"Z_PK"} |-> SqlNull]]>> :
        f \in [cols \ {"Z_PK"} -> {SqlInt(0), SqlInt(1)}]}

ChildRows == [owner : RecordIds, value : {SqlNull, SqlText(""), SqlText("x"), SqlInt(7)}]

\* pick_col with the last alias present instead of the first
pick_col_last(cols, cands) ==
    IF \E i \in 1..Len(cands) : cands[i] \in cols
    THEN cands[CHOOSE i \in 1..Len(cands) :
                 cands[i] \in cols /\ \A j \in (i + 1)..Len(cands) : cands[j] \notin cols]
    ELSE NoCol

\* pick_col, lines 200-205: the first candidate that is a column of the table
pick_col(cols, cands) ==
    IF \E i \in 1..Len(cands) : cands[i] \in cols
    THEN cands[CHOOSE i \in 1..Len(cands) :
                 cands[i] \in cols /\ \A j \in 1..(i - 1) : cands[j] \notin cols]
    ELSE NoCol

\* Python truth value of a column value
Truthy(x) == IF IsNone(x) THEN FALSE ELSE IF IsInt(x) THEN x.v # 0 ELSE x.v # ""

\* the is_deleted projection of the person query, lines 212, 220
is_deleted_of(cols, row) ==
    LET col_del == pick_col(cols, DelAliases)
    IN IF col_del # NoCol THEN row.cells[col_del] ELSE SqlInt(0)

ModernInit ==
    /\ pc = "m_query"
    /\ m_cols \in ModernColumnSets
    /\ m_table \in ModernTables(m_cols)
    /\ m_persons = <<>> /\ m_key = 0 /\ n_child = 0 /\ m_cur = NoChild /\ m_read = <<>>
    /\ child_maps = EmptyChildMaps
    /\ contacts = <<>>
    /\ LegacyIdle
    /\ ResolverIdle
    /\ DetectIdle
    /\ ProjectIdle
    /\ LocateIdle
    /\ QueriesIdle
    /\ MainIdle
    /\ ManifestIdle
    /\ RowsIdle
    /\ EscapeIdle
    /\ RepeatIdle

\* lines 207-223: resolve the columns and fetch the person rows
QueryPersons ==
    /\ pc = "m_query"
    /\ m_persons' = [i \in 1..Len(m_table) |->
                       [id |-> m_table[i].id, is_deleted |-> is_deleted_of(m_cols, m_table[i])]]
    /\ m_key' = 1
    /\ pc' = "m_rel"
    /\ UNCHANGED <<m_cols, m_table, n_child, m_cur, m_read, child_maps, contacts>>
    /\ UNCHANGED <<legacyVars, resolverVars, detectVars, projVars, locateVars, queryVars, mainVars, manifestVars, rowsVars, escapeVars, repeatVars>>

\* lines 245-248: the next relation of map_defs, its child table located
StartRelation ==
    /\ pc = "m_rel"
    /\ m_key <= Len(Relations)
    /\ pc' = "m_fetch"
    /\ UNCHANGED <<m_cols, m_table, m_persons, m_key, n_child, m_cur, m_read, child_maps, contacts>>
    /\ UNCHANGED <<legacyVars, resolverVars, detectVars, projVars, locateVars, queryVars, mainVars, manifestVars, rowsVars, escapeVars, repeatVars>>

\* line 248: the cursor over the child table yields the next row
FetchChild ==
    /\ pc = "m_fetch"
    /\ n_child < MaxChildRows
    /\ m_cur' \in ChildRows
    /\ m_read' = Append(m_read, [rel |-> Relations[m_key], owner |-> m_cur'.owner,
                                 value |-> m_cur'.value])
    /\ n_child' = n_child + 1
    /\ pc' = "m_body"
    /\ UNCHANGED <<m_cols, m_table, m_persons, m_key, child_maps, contacts>>
    /\ UNCHANGED <<legacyVars, resolverVars, detectVars, projVars, locateVars, queryVars, mainVars, manifestVars, rowsVars, escapeVars, repeatVars>>

\* lines 249-250: the loop body on the row
AppendChild ==
    /\ pc = "m_body"
    /\ child_maps' =
         IF IsNone(m_cur.value) THEN child_maps
         ELSE [child_maps EXCEPT ![Relations[m_key]][m_cur.owner] = Append(@, PyStr(m_cur.value))]
    /\ pc' = "m_next"
    /\ UNCHANGED <<m_cols, m_table, m_persons, m_key, n_child, m_cur, m_read, contacts>>
    /\ UNCHANGED <<legacyVars, resolverVars, detectVars, projVars, locateVars, queryVars, mainVars, manifestVars, rowsVars, escapeVars, repeatVars>>

\* back to the head of the row loop
NextChild ==
    /\ pc = "m_next"
    /\ m_cur' = NoChild
    /\ pc' = "m_fetch"
    /\ UNCHANGED <<m_cols, m_table, m_persons, m_key, n_child, m_read, child_maps, contacts>>
    /\ UNCHANGED <<legacyVars, resolverVars, detectVars, projVars, locateVars, queryVars, mainVars, manifestVars, rowsVars, escapeVars, repeatVars>>

\* the child table's cursor is exhausted: on to the next relation
EndRelation ==
    /\ pc = "m_fetch"
    /\ m_key' = m_key + 1
    /\ pc' = "m_rel"
    /\ UNCHANGED <<m_cols, m_table, m_persons, n_child, m_cur, m_read, child_maps, contacts>>
    /\ UNCHANGED <<legacyVars, resolverVars, detectVars, projVars, locateVars, queryVars, mainVars, manifestVars, rowsVars, escapeVars, repeatVars>>

\* every fetched person row yields a contact
kept_persons_all(fetched) == fetched

\* lines 255-257: the person rows that are not skipped as deleted
kept_persons(fetched) == SelectSeq(fetched, LAMBDA p : ~Truthy(p.is_deleted))

\* lines 254-271: one contact per kept person row, then return
BuildModern ==
    /\ pc = "m_rel"
    /\ m_key > Len(Relations)
    /\ contacts' = LET kept == kept_persons(m_persons)
                   IN [i \in 1..Len(kept) |->
                         [id |-> kept[i].id,
                          phones |-> MapGet(child_maps["phones"], kept[i].id),
                          emails |-> MapGet(child_maps["emails"], kept[i].id),
                          addresses |-> MapGet(child_maps["addresses"], kept[i].id),
                          urls |-> MapGet(child_maps["urls"], kept[i].id)]]
    /\ pc' = "m_returned"
    /\ UNCHANGED <<m_cols, m_table, m_persons, m_key, n_child, m_cur, m_read, child_maps>>
    /\ UNCHANGED <<legacyVars, resolverVars, detectVars, projVars, locateVars, queryVars, mainVars, manifestVars, rowsVars, escapeVars, repeatVars>>

ModernNext ==
    \/ QueryPersons \/ StartRelation \/ FetchChild \/ AppendChild \/ NextChild
    \/ EndRelation \/ BuildModern

SpecModern == ModernInit /\ [][ModernNext]_vars

-----------------------------------------------------------------------------
(* Properties of the Core Data loader                                      *)

\* the person row's deletion flag is set: the first of ZISDELETED, ZTRASHED,
\* ZMARKEDFORDELETE that is a column of the table holds a truthy value
FlagSet(cols, row) ==
    \E i \in 1..Len(DelAliases) :
        /\ DelAliases[i] \in cols
        /\ \A j \in 1..(i - 1) : DelAliases[j] \notin cols
        /\ Truthy(row.cells[DelAliases[i]])

DeletedIds == {m_table[j].id : j \in {j \in 1..Len(m_table) : FlagSet(m_cols, m_table[j])}}

\* the child rows read for relation rel whose owner is id, in row order
RowsOf(rel, id) == SelectSeq(m_read, LAMBDA r : r.rel = rel /\ r.owner = id)

RelationSet == SeqRange(Relations)

\* C3: no returned contact belongs to a person row whose deletion flag is set,
\* and every value in a returned contact's phones, emails, addresses and urls
\* comes from a child row owned by that (not deleted) contact, so no child row
\* owned by a deleted person appears in any returned contact.
C3_NoDeletedContacts ==
    pc = "m_returned" =>
        \A i \in 1..Len(contacts) :
            /\ contacts[i].id \notin DeletedIds
            /\ \A rel \in RelationSet :
                  /\ Len(contacts[i][rel]) <= Len(RowsOf(rel, contacts[i].id))
                  /\ \A e \in 1..Len(contacts[i][rel]) :
                        \E k \in 1..Len(m_read) :
                            /\ m_read[k].rel = rel
                            /\ m_read[k].owner \notin DeletedIds
                            /\ m_read[k].owner = contacts[i].id
                            /\ ~IsNone(m_read[k].value)
                            /\ PyStr(m_read[k].value) = contacts[i][rel][e]

\* person 1 is flagged deleted and owns a phone row; only person 2 is returned
C3_Witness ==
    /\ pc = "m_returned"
    /\ 1 \in DeletedIds
    /\ \E k \in 1..Len(m_read) :
          m_read[k] = [rel |-> "phones", owner |-> 1, value |-> SqlText("x")]
    /\ Len(contacts) = 1 /\ contacts[1].id = 2

\* C4: every string in a returned contact's phones, emails, addresses and urls
\* comes from a source value that was neither null nor empty, so no collection
\* of a returned contact contains the empty string (legacy and Core Data path).
C4_NoEmptyStrings ==
    \A i \in 1..Len(contacts) :
        \A rel \in RelationSet :
            \A e \in 1..Len(contacts[i][rel]) : contacts[i][rel][e] # ""

-----------------------------------------------------------------------------
(* backup_file_path                                                        *)

MaxIdLen == 3                \* longest identity string tried
PrefixLen == 2               \* file_id[:2]

Sep == "/"

StartsWith(s, pre) == Len(s) >= Len(pre) /\ SubSeq(s, 1, Len(pre)) = pre
EndsWith(s, suf) == Len(s) >= Len(suf) /\ SubSeq(s, Len(s) - Len(suf) + 1, Len(s)) = suf

\* s[:k]
Prefix(s, k) == SubSeq(s, 1, IF Len(s) < k THEN Len(s) ELSE k)

\* one step of os.path.join (posixpath): path joined with the component b
join2(path, b) ==
    IF StartsWith(b, Sep) THEN b
    ELSE IF path = "" \/ EndsWith(path, Sep) THEN path \o b
    ELSE path \o Sep \o b

\* backup_file_path with a one-character directory prefix
backup_file_path_short(dir, id) == join2(join2(dir, Prefix(id, 1)), id)

\* backup_file_path, lines 58-61
backup_file_path(dir, id) == join2(join2(dir, Prefix(id, PrefixLen)), id)

IdChars == {"a", "b", Sep}

RECURSIVE StringsOfLen(_)
StringsOfLen(k) ==
    IF k = 0 THEN {""} ELSE {s \o c : s \in StringsOfLen(k - 1), c \in IdChars}

Identities == UNION {StringsOfLen(k) : k \in 0..MaxIdLen}

\* backup roots as os.path.abspath returns them, line 379
BackupRoots == {"/", "/b", "/b/c"}

PathInit ==
    /\ pc = "p_call"
    /\ backup_dir \in BackupRoots
    /\ file_id \in Identities
    /\ db_path = None
    /\ manifest = <<>> /\ disk = {} /\ pat = 0 /\ rows = <<>> /\ candidates = <<>>
    /\ best = NoEntry /\ result = None
    /\ contacts = <<>>
    /\ LegacyIdle
    /\ ModernIdle
    /\ DetectIdle
    /\ ProjectIdle
    /\ LocateIdle
    /\ QueriesIdle
    /\ MainIdle
    /\ ManifestIdle
    /\ RowsIdle
    /\ EscapeIdle
    /\ RepeatIdle

CallBackupFilePath ==
    /\ pc = "p_call"
    /\ db_path' = Str(backup_file_path(backup_dir, file_id))
    /\ pc' = "p_done"
    /\ UNCHANGED <<backup_dir, file_id, manifest, disk, pat, rows, candidates, best, result>>
    /\ UNCHANGED <<contacts, legacyVars, modernVars, detectVars, projVars, locateVars, queryVars, mainVars, manifestVars, rowsVars, escapeVars, repeatVars>>

PathNext == CallBackupFilePath

SpecPath == PathInit /\ [][PathNext]_vars

\* <backupRoot>/<first two characters of identity>/<identity>
AddressedPath(dir, id) == dir \o "/" \o Prefix(id, 2) \o "/" \o id

-----------------------------------------------------------------------------
(* find_contact_dbs and pick_best_contacts_db                              *)

MaxFiles == 2                \* rows of the catalog's Files table

\* like_patterns, lines 65-70
like_patterns ==
    << "%AddressBook.sqlitedb%",
       "%AddressBookImages.sqlitedb%",
       "%Application Support/AddressBook/%",
       "%Contacts%.sqlite%" >>

RECURSIVE Like(_, _)
\* SQLite's `s LIKE p`: "%" matches any run of characters, letters match
\* without regard to case
Like(p, s) ==
    IF p = "" THEN s = ""
    ELSE IF CharAt(p, 1) = "%"
         THEN \E k \in 0..Len(s) : Like(SubSeq(p, 2, Len(p)), SubSeq(s, k + 1, Len(s)))
    ELSE /\ s # ""
         /\ LowerChar(CharAt(s, 1)) = LowerChar(CharAt(p, 1))
         /\ Like(SubSeq(p, 2, Len(p)), SubSeq(s, 2, Len(s)))

\* rp.count("/")
CountSep(s) == Cardinality({i \in 1..Len(s) : CharAt(s, i) = "/"})

\* score with the "images" penalty added instead of subtracted
score_images_bonus(relativePath) ==
    LET rp == Lower(relativePath)
    IN (IF Contains("addressbook.sqlitedb", rp) \/ Contains("contacts", rp) THEN 10 ELSE 0)
       + (IF Contains("images", rp) THEN 5 ELSE 0)
       + (IF Contains("application support/addressbook", rp) THEN 5 ELSE 0)
       + CountSep(rp)

\* score computed on the path as stored, without lowering it
score_case_sensitive(relativePath) ==
    LET rp == relativePath
    IN (IF Contains("addressbook.sqlitedb", rp) \/ Contains("contacts", rp) THEN 10 ELSE 0)
       - (IF Contains("images", rp) THEN 5 ELSE 0)
       + (IF Contains("application support/addressbook", rp) THEN 5 ELSE 0)
       + CountSep(rp)

\* the score of a candidate, lines 342-350
score(relativePath) ==
    LET rp == Lower(relativePath)
    IN (IF Contains("addressbook.sqlitedb", rp) \/ Contains("contacts", rp) THEN 10 ELSE 0)
       - (IF Contains("images", rp) THEN 5 ELSE 0)
       + (IF Contains("application support/addressbook", rp) THEN 5 ELSE 0)
       + CountSep(rp)

\* The logical paths a catalog row may carry.
Paths ==
    { "Library/AddressBook/AddressBook.sqlitedb",
      "Images/AddressBook/AddressBook.sqlitedb",
      "Media/Library/AddressBook/AddressBookImages.sqlitedb",
      "Library/Application Support/AddressBook/AddressBookImages.sqlitedb",
      "Contacts/Application Support/AddressBook/AddressBookImages.sqlitedb",
      "Library/contacts/Contacts.SQLITE",
      "Library/SMS/sms.db" }

FileIds == {"ab12", "cd34"}

FileRows == [fileID : FileIds, relativePath : Paths]

RECURSIVE SeqsOfLen(_, _)
SeqsOfLen(S, k) ==
    IF k = 0 THEN {<<>>} ELSE {Append(q, x) : q \in SeqsOfLen(S, k - 1), x \in S}

Manifests == UNION {SeqsOfLen(FileRows, k) : k \in 0..MaxFiles}

MatchTable == [i \in 1..Len(like_patterns) |-> [path \in Paths |-> Like(like_patterns[i], path)]]
ScoreTable == [path \in Paths |-> score(path)]

\* the rows one SELECT ... WHERE relativePath LIKE ? returns, lines 73-77
Matches(files, i) == SelectSeq(files, LAMBDA r : MatchTable[i][r.relativePath])

RECURSIVE unique_keep_last(_)
\* deduplication that keeps the last row of each fileID
unique_keep_last(rs) ==
    IF rs = <<>> THEN <<>>
    ELSE IF \E j \in 2..Len(rs) : rs[j].fileID = rs[1].fileID
         THEN unique_keep_last(Tail(rs))
    ELSE <<rs[1]>> \o unique_keep_last(Tail(rs))

RECURSIVE UniqueFrom(_, _, _)
UniqueFrom(rs, seen, acc) ==
    IF rs = <<>> THEN acc
    ELSE IF rs[1].fileID \in seen THEN UniqueFrom(Tail(rs), seen, acc)
    ELSE UniqueFrom(Tail(rs), seen \cup {rs[1].fileID}, Append(acc, rs[1]))

\* lines 79-82: deduplicate by fileID
unique(rs) == UniqueFrom(rs, {}, <<>>)

\* the sorted list with x inserted behind every entry whose score is not lower
InsertDesc(sorted, x) ==
    LET k == Cardinality({i \in 1..Len(sorted) : sorted[i][1] >= x[1]})
    IN SubSeq(sorted, 1, k) \o <<x>> \o SubSeq(sorted, k + 1, Len(sorted))

RECURSIVE SortDescFrom(_, _)
SortDescFrom(ps, acc) ==
    IF ps = <<>> THEN acc ELSE SortDescFrom(Tail(ps), InsertDesc(acc, ps[1]))

RECURSIVE Reverse(_)
Reverse(q) == IF q = <<>> THEN <<>> ELSE Append(Reverse(Tail(q)), q[1])

\* ascending sort followed by a reversal: equal scores end up in reverse order
sort_desc_reversed(ps) == SortDescFrom(Reverse(ps), <<>>)

\* priorities.sort(key=lambda x: x[0], reverse=True), line 353: stable
sort_desc(ps) == SortDescFrom(ps, <<>>)

\* lines 340-351
priorities_of(cands) == [i \in 1..Len(cands) |-> <<ScoreTable[cands[i].relativePath], cands[i]>>]

\* the entry the sort puts last taken instead of the first
best_of_last(cands) == sort_desc(priorities_of(cands))[Len(cands)][2]

\* lines 353-354
best_of(cands) == sort_desc(priorities_of(cands))[1][2]

ResolveDir == "/b"

ResolveInit ==
    /\ pc = "r_query"
    /\ backup_dir = ResolveDir
    /\ manifest \in Manifests
    /\ disk \in SUBSET {backup_file_path(ResolveDir, id) : id \in FileIds}
    /\ pat = 1
    /\ rows = <<>> /\ candidates = <<>> /\ best = NoEntry /\ result = None
    /\ file_id = "" /\ db_path = None
    /\ contacts = <<>>
    /\ LegacyIdle
    /\ ModernIdle
    /\ DetectIdle
    /\ ProjectIdle
    /\ LocateIdle
    /\ QueriesIdle
    /\ MainIdle
    /\ ManifestIdle
    /\ RowsIdle
    /\ EscapeIdle
    /\ RepeatIdle

\* lines 72-77: one pattern's query, its rows added to the accumulation
QueryPattern ==
    /\ pc = "r_query"
    /\ pat <= Len(like_patterns)
    /\ rows' = rows \o Matches(manifest, pat)
    /\ pat' = pat + 1
    /\ UNCHANGED <<pc, backup_dir, file_id, db_path, manifest, disk, candidates, best, result>>
    /\ UNCHANGED <<contacts, legacyVars, modernVars, detectVars, projVars, locateVars, queryVars, mainVars, manifestVars, rowsVars, escapeVars, repeatVars>>

\* lines 78-83 and 335: the deduplicated candidates
Deduplicate ==
    /\ pc = "r_query"
    /\ pat > Len(like_patterns)
    /\ candidates' = unique(rows)
    /\ pc' = "r_pick"
    /\ UNCHANGED <<backup_dir, file_id, db_path, manifest, disk, pat, rows, best, result>>
    /\ UNCHANGED <<contacts, legacyVars, modernVars, detectVars, projVars, locateVars, queryVars, mainVars, manifestVars, rowsVars, escapeVars, repeatVars>>

\* `return None`, line 337
no_candidates_result == None

\* `return None`, line 358
missing_file_result == None

\* lines 336-337
ReturnNoCandidates ==
    /\ pc = "r_pick"
    /\ candidates = <<>>
    /\ result' = no_candidates_result
    /\ pc' = "r_done"
    /\ UNCHANGED <<backup_dir, file_id, db_path, manifest, disk, pat, rows, candidates, best>>
    /\ UNCHANGED <<contacts, legacyVars, modernVars, detectVars, projVars, locateVars, queryVars, mainVars, manifestVars, rowsVars, escapeVars, repeatVars>>

\* lines 339-355: score, sort, take the top entry, compute its path
ChooseBest ==
    /\ pc = "r_pick"
    /\ candidates # <<>>
    /\ best' = best_of(candidates)
    /\ file_id' = best'.fileID
    /\ db_path' = Str(backup_file_path(backup_dir, best'.fileID))
    /\ pc' = "r_check"
    /\ UNCHANGED <<backup_dir, manifest, disk, pat, rows, candidates, result>>
    /\ UNCHANGED <<contacts, legacyVars, modernVars, detectVars, projVars, locateVars, queryVars, mainVars, manifestVars, rowsVars, escapeVars, repeatVars>>

\* lines 356-358: the file is not on disk
ReturnMissing ==
    /\ pc = "r_check"
    /\ db_path.v \notin disk
    /\ result' = missing_file_result
    /\ pc' = "r_done"
    /\ UNCHANGED <<backup_dir, file_id, db_path, manifest, disk, pat, rows, candidates, best>>
    /\ UNCHANGED <<contacts, legacyVars, modernVars, detectVars, projVars, locateVars, queryVars, mainVars, manifestVars, rowsVars, escapeVars, repeatVars>>

\* lines 359-360
ReturnPath ==
    /\ pc = "r_check"
    /\ db_path.v \in disk
    /\ result' = db_path
    /\ pc' = "r_done"
    /\ UNCHANGED <<backup_dir, file_id, db_path, manifest, disk, pat, rows, candidates, best>>
    /\ UNCHANGED <<contacts, legacyVars, modernVars, detectVars, projVars, locateVars, queryVars, mainVars, manifestVars, rowsVars, escapeVars, repeatVars>>

ResolveNext ==
    \/ QueryPattern \/ Deduplicate \/ ReturnNoCandidates \/ ChooseBest
    \/ ReturnMissing \/ ReturnPath

SpecResolve == ResolveInit /\ [][ResolveNext]_vars

-----------------------------------------------------------------------------
(* Properties of the resolver                                              *)

Picked == pc \in {"r_check", "r_done"} /\ candidates # <<>>

InSeq(x, q) == \E i \in 1..Len(q) : q[i] = x

\* the path ends in name and has k path separators
PathShape == [path \in Paths |-> [name \in {"AddressBookImages.sqlitedb", "AddressBook.sqlitedb"} |->
                 [k \in 2..3 |-> EndsWith(path, name) /\ CountSep(path) = k]]]

IsImageEntry(e) == PathShape[e.relativePath]["AddressBookImages.sqlitedb"][3]
IsPrimaryEntry(e) == PathShape[e.relativePath]["AddressBook.sqlitedb"][2]

\* the lowercase path carries none of the markers of the +10 bonus
NoBonusMarker == [path \in Paths |->
                    ~Contains("contacts", Lower(path))
                    /\ ~Contains("addressbook.sqlitedb", Lower(path))]

MatchesAny(r) == \E i \in 1..Len(like_patterns) : MatchTable[i][r.relativePath]

\* the index of the first row of q that carries the fileID id
FirstIndex(q, id) == CHOOSE i \in 1..Len(q) :
                        q[i].fileID = id /\ \A j \in 1..(i - 1) : q[j].fileID # id

\* C6: find_contact_dbs returns the rows matching at least one pattern, each
\* fileID exactly once; the matches are accumulated pattern by pattern in
\* pattern order and a row whose fileID was produced earlier is discarded, so
\* the result is in order of first occurrence.
C6_UniqueInFirstOccurrenceOrder ==
    pc \in {"r_pick", "r_check", "r_done"} =>
        /\ rows = Matches(manifest, 1) \o Matches(manifest, 2) \o Matches(manifest, 3)
                      \o Matches(manifest, 4)
        /\ {candidates[i].fileID : i \in 1..Len(candidates)}
               = {manifest[j].fileID : j \in {j \in 1..Len(manifest) : MatchesAny(manifest[j])}}
        /\ \A i, j \in 1..Len(candidates) :
               i # j => candidates[i].fileID # candidates[j].fileID
        /\ \A i \in 1..Len(candidates) :
               candidates[i] = rows[FirstIndex(rows, candidates[i].fileID)]
        /\ \A i, j \in 1..Len(candidates) :
               i < j => FirstIndex(rows, candidates[i].fileID)
                            < FirstIndex(rows, candidates[j].fileID)

\* one row was matched by two patterns and dropped the second time
C6_Witness ==
    /\ pc = "r_pick"
    /\ Len(rows) = 3
    /\ Len(candidates) = 2
    /\ rows[2].fileID = rows[3].fileID

\* C7: the selected candidate has the maximal score, and among the candidates
\* with the maximal score it is the one discovered first.
C7_MaxScoreFirstDiscovered ==
    Picked =>
        \E k \in 1..Len(candidates) :
            /\ best = candidates[k]
            /\ \A i \in 1..Len(candidates) :
                  ScoreTable[candidates[i].relativePath] <= ScoreTable[candidates[k].relativePath]
            /\ \A i \in 1..(k - 1) :
                  ScoreTable[candidates[i].relativePath] < ScoreTable[candidates[k].relativePath]

\* two different candidates tie on the maximal score and the first was selected
C7_Witness ==
    /\ pc = "r_done"
    /\ Len(candidates) = 2
    /\ candidates[1].relativePath # candidates[2].relativePath
    /\ ScoreTable[candidates[1].relativePath] = ScoreTable[candidates[2].relativePath]
    /\ best = candidates[1]

\* C9: the caller can tell ExpectedFileMissing (a candidate was chosen but its
\* file is absent) from NoCandidateMatch (no pattern matched) by the result:
\* what is returned for a missing file differs from what is returned when
\* there is no candidate.
C9_FailuresDistinguishable ==
    (pc = "r_done" /\ candidates # <<>> /\ db_path.v \notin disk)
        => result # no_candidates_result

-----------------------------------------------------------------------------
(* read_contacts_from_db: schema detection and dispatch                    *)

\* the names read_contacts_from_db tests for the legacy person table
legacy_person_tables == <<"ABPerson", "abperson">>

candidate_person_tables == <<"ZABCDRECORD", "ZCONTACT", "ZPERSON", "ZABPERSON">>

\* `name=?` on sqlite_master compares with the BINARY collation: the stored
\* name must equal the argument character for character
table_exists(names, name) == name \in names

\* Spellings of the legacy person table a database may carry; SQLite refuses a
\* second table whose name differs from an existing one only in letter case.
LegacyNames == {"ABPerson", "abperson", "ABPERSON", "AbPerson"}

ModernNames == {candidate_person_tables[i] : i \in 1..Len(candidate_person_tables)}

Schemas == {l \cup m : l \in {{}} \cup {{n} : n \in LegacyNames}, m \in SUBSET ModernNames}

DetectInit ==
    /\ pc = "d_open"
    /\ tables \in Schemas
    /\ conn = "none" /\ probe = 0 /\ loader = ""
    /\ person_table = None /\ raised = None
    /\ contacts = <<>>
    /\ LegacyIdle
    /\ ModernIdle
    /\ ResolverIdle
    /\ ProjectIdle
    /\ LocateIdle
    /\ QueriesIdle
    /\ MainIdle
    /\ ManifestIdle
    /\ RowsIdle
    /\ EscapeIdle
    /\ RepeatIdle

\* line 275
OpenDb ==
    /\ pc = "d_open"
    /\ conn' = "open"
    /\ pc' = "d_legacy"
    /\ UNCHANGED <<tables, probe, loader, person_table, raised>>
    /\ UNCHANGED <<contacts, legacyVars, modernVars, resolverVars, projVars, locateVars, queryVars, mainVars, manifestVars, rowsVars, escapeVars, repeatVars>>

\* lines 277-279
DetectLegacy ==
    /\ pc = "d_legacy"
    /\ IF \E i \in 1..Len(legacy_person_tables) : table_exists(tables, legacy_person_tables[i])
         THEN /\ loader' = "load_contacts_from_ab_schema"
              /\ pc' = "d_close"
              /\ probe' = probe
         ELSE /\ loader' = "load_contacts_from_coredata_schema"
              /\ pc' = "d_modern"
              /\ probe' = 1
    /\ UNCHANGED <<tables, conn, person_table, raised>>
    /\ UNCHANGED <<contacts, legacyVars, modernVars, resolverVars, projVars, locateVars, queryVars, mainVars, manifestVars, rowsVars, escapeVars, repeatVars>>

\* line 196: next(t for t in candidate_person_tables if table_exists(conn, t))
ProbePersonTable ==
    /\ pc = "d_modern"
    /\ probe <= Len(candidate_person_tables)
    /\ IF table_exists(tables, candidate_person_tables[probe])
         THEN /\ person_table' = Str(candidate_person_tables[probe])
              /\ pc' = "d_close"
              /\ probe' = probe
         ELSE /\ probe' = probe + 1
              /\ UNCHANGED <<pc, person_table>>
    /\ UNCHANGED <<tables, conn, loader, raised>>
    /\ UNCHANGED <<contacts, legacyVars, modernVars, resolverVars, projVars, locateVars, queryVars, mainVars, manifestVars, rowsVars, escapeVars, repeatVars>>

\* lines 196-198: the generator is exhausted, person_table is None
RaiseNoPersonTable ==
    /\ pc = "d_modern"
    /\ probe > Len(candidate_person_tables)
    /\ raised' = Str("RuntimeError")
    /\ pc' = "d_close"
    /\ UNCHANGED <<tables, conn, probe, loader, person_table>>
    /\ UNCHANGED <<contacts, legacyVars, modernVars, resolverVars, projVars, locateVars, queryVars, mainVars, manifestVars, rowsVars, escapeVars, repeatVars>>

\* lines 280-281: finally
CloseDb ==
    /\ pc = "d_close"
    /\ conn' = "closed"
    /\ pc' = "d_done"
    /\ UNCHANGED <<tables, probe, loader, person_table, raised>>
    /\ UNCHANGED <<contacts, legacyVars, modernVars, resolverVars, projVars, locateVars, queryVars, mainVars, manifestVars, rowsVars, escapeVars, repeatVars>>

DetectNext == OpenDb \/ DetectLegacy \/ ProbePersonTable \/ RaiseNoPersonTable \/ CloseDb

SpecDetect == DetectInit /\ [][DetectNext]_vars

-----------------------------------------------------------------------------
(* Properties of schema detection                                          *)

\* the database holds the legacy person table under some letter case
HasLegacyPersonTable == \E t \in tables : Lower(t) = "abperson"

\* C10: a database that contains the legacy person table, under any
\* letter-case variant of its name, is handled as Legacy (dispatched to the
\* legacy loader), whether or not modern person tables exist as well.
C10_LegacyAnyLetterCase ==
    (pc = "d_done" /\ HasLegacyPersonTable)
        => (loader = "load_contacts_from_ab_schema" /\ raised = None)

-----------------------------------------------------------------------------
(* load_contacts_from_coredata_schema: the person query and its columns    *)

NameRoles == <<"first", "last", "middle", "org", "note">>

\* lines 207-212: the ranked aliases of each role
role_aliases ==
    [first      |-> <<"ZFIRSTNAME", "ZFIRST", "ZFIRST_NAME">>,
     last       |-> <<"ZLASTNAME", "ZLAST", "ZLAST_NAME">>,
     middle     |-> <<"ZMIDDLENAME", "ZMN", "ZMIDDLE">>,
     org        |-> <<"ZORGANIZATION", "ZORGANIZATIONNAME", "ZCOMPANY">>,
     note       |-> <<"ZNOTE">>,
     is_deleted |-> DelAliases]

Roles == DOMAIN role_aliases

\* The person tables a run may read: Z_PK plus any of these name and flag columns
ProjectColumnSets ==
    {{"Z_PK"} \cup f \cup m \cup l \cup o \cup n \cup d :
        f \in SUBSET SeqRange(role_aliases.first),
        m \in SUBSET {"ZMIDDLENAME", "ZMIDDLE"},
        l \in SUBSET {"ZLAST"},
        o \in SUBSET {"ZCOMPANY"},
        n \in SUBSET {"ZNOTE"},
        d \in SUBSET {"ZISDELETED", "ZTRASHED"}}

\* Row 1 holds in every name column a text that tells the columns apart and
\* 0 or 1 in every flag column; row 2 holds NULL everywhere.
ProjectTables(cols) ==
    LET flags == cols \cap SeqRange(DelAliases)
        names == cols \ (flags \cup {"Z_PK"})
    IN {<<[id |-> 1, cells |-> [c \in names \cup flags |->
                                  IF c \in names THEN SqlText(c) ELSE f[c]]],
          [id |-> 2, cells |-> [c \in names \cup flags |-> SqlNull]]>> :
           f \in [flags -> {SqlInt(0), SqlInt(1)}]}

\* lines 214-221: the columns the SELECT names
referenced_columns(sel) == {"Z_PK"} \cup {sel[r] : r \in {r \in Roles : sel[r] # NoCol}}

\* lines 214-221: the projection of one row; a role without a column is the
\* literal '' (0 for is_deleted)
project(sel, row) ==
    [r \in Roles |->
        IF sel[r] # NoCol THEN row.cells[sel[r]]
        ELSE IF r = "is_deleted" THEN SqlInt(0) ELSE SqlText("")]

\* `p[x] or ""`, lines 261-265
or_empty(v) == IF Truthy(v) THEN v ELSE SqlText("")

ProjectInit ==
    /\ pc = "q_pick"
    /\ q_cols \in ProjectColumnSets
    /\ q_table \in ProjectTables(q_cols)
    /\ q_sel = <<>> /\ q_persons = <<>> /\ q_error = None
    /\ contacts = <<>>
    /\ LegacyIdle
    /\ ModernIdle
    /\ ResolverIdle
    /\ DetectIdle
    /\ LocateIdle
    /\ QueriesIdle
    /\ MainIdle
    /\ ManifestIdle
    /\ RowsIdle
    /\ EscapeIdle
    /\ RepeatIdle

\* lines 207-212
PickColumns ==
    /\ pc = "q_pick"
    /\ q_sel' = [r \in Roles |-> pick_col(q_cols, role_aliases[r])]
    /\ pc' = "q_query"
    /\ UNCHANGED <<q_cols, q_table, q_persons, q_error, contacts>>
    /\ UNCHANGED <<legacyVars, modernVars, resolverVars, detectVars, locateVars, queryVars, mainVars, manifestVars, rowsVars, escapeVars, repeatVars>>

\* lines 214-223: SQLite rejects a SELECT that names a column the table lacks
RunPersonQuery ==
    /\ pc = "q_query"
    /\ IF referenced_columns(q_sel) \subseteq q_cols
         THEN /\ q_persons' = [i \in 1..Len(q_table) |->
                                 [id |-> q_table[i].id, is_deleted |-> project(q_sel, q_table[i]).is_deleted,
                                  fields |-> project(q_sel, q_table[i])]]
              /\ pc' = "q_build"
              /\ q_error' = q_error
         ELSE /\ q_error' = Str("sqlite3.OperationalError")
              /\ pc' = "q_raised"
              /\ q_persons' = q_persons
    /\ UNCHANGED <<q_cols, q_table, q_sel, contacts>>
    /\ UNCHANGED <<legacyVars, modernVars, resolverVars, detectVars, locateVars, queryVars, mainVars, manifestVars, rowsVars, escapeVars, repeatVars>>

\* lines 254-271, the name fields of each contact
BuildProjected ==
    /\ pc = "q_build"
    /\ contacts' = LET kept == kept_persons(q_persons)
                   IN [i \in 1..Len(kept) |->
                         [r \in {"id"} \cup SeqRange(NameRoles) |->
                            IF r = "id" THEN SqlInt(kept[i].id) ELSE or_empty(kept[i].fields[r])]]
    /\ pc' = "q_returned"
    /\ UNCHANGED <<q_cols, q_table, q_sel, q_persons, q_error>>
    /\ UNCHANGED <<legacyVars, modernVars, resolverVars, detectVars, locateVars, queryVars, mainVars, manifestVars, rowsVars, escapeVars, repeatVars>>

ProjectNext == PickColumns \/ RunPersonQuery \/ BuildProjected

SpecProject == ProjectInit /\ [][ProjectNext]_vars

-----------------------------------------------------------------------------
(* Properties of the person query                                          *)

HasAlias(r) == \E i \in 1..Len(role_aliases[r]) : role_aliases[r][i] \in q_cols

\* c is the first alias of role r that is a column of the table
IsFirstAlias(r, c) ==
    \E i \in 1..Len(role_aliases[r]) :
        /\ role_aliases[r][i] = c
        /\ c \in q_cols
        /\ \A j \in 1..(i - 1) : role_aliases[r][j] \notin q_cols

\* the value a contact shows for a cell: the cell, or '' when it is NULL
Shown(cell) == IF IsNone(cell) \/ cell = SqlText("") \/ cell = SqlInt(0) THEN SqlText("") ELSE cell

\* the row of the person table with primary key id
TableRow(id) == CHOOSE row \in SeqRange(q_table) : row.id = id

\* C11: each role is projected from the first alias of its ranked list that is
\* a column of the person table; with no alias present the query still
\* succeeds, every contact has '' for that role, and without a deletion-flag
\* column every person row yields a contact.
C11_FirstAliasOrDefault ==
    /\ pc # "q_raised"
    /\ pc = "q_returned" =>
          /\ \A r \in SeqRange(NameRoles) : \A k \in 1..Len(contacts) :
                /\ \A c \in q_cols :
                      IsFirstAlias(r, c) =>
                          contacts[k][r] = Shown(TableRow(contacts[k].id.v).cells[c])
                /\ ~HasAlias(r) => contacts[k][r] = SqlText("")
          /\ \A c \in q_cols :
                IsFirstAlias("is_deleted", c) =>
                    {contacts[k].id.v : k \in 1..Len(contacts)}
                        = {row.id : row \in {x \in SeqRange(q_table) : ~Truthy(x.cells[c])}}
          /\ ~HasAlias("is_deleted") =>
                [k \in 1..Len(contacts) |-> contacts[k].id.v]
                    = [k \in 1..Len(q_table) |-> q_table[k].id]

\* no middle-name column and no flag column, two first-name aliases: first is
\* read from the higher-ranked alias and middle is ''
C11_Witness ==
    /\ pc = "q_returned"
    /\ q_cols = {"Z_PK", "ZFIRST", "ZFIRST_NAME", "ZLAST"}
    /\ Len(contacts) = 2
    /\ contacts[1].first = SqlText("ZFIRST")
    /\ contacts[1].middle = SqlText("")
    /\ contacts[2].first = SqlText("")

-----------------------------------------------------------------------------
(* locate_child: the child table of one relation                           *)

\* lines 225-230
map_defs ==
    <<[key |-> "phones",
       tbls |-> <<"ZABCDPHONENUMBER", "ZPHONE", "ZABPHONE">>,
       owners |-> <<"ZOWNER", "ZCONTACT", "ZPERSON">>,
       values |-> <<"ZFULLNUMBER", "ZVALUE", "ZPHONENUMBER">>],
      [key |-> "emails",
       tbls |-> <<"ZABCDEMAILADDRESS", "ZEMAIL", "ZABEMAIL">>,
       owners |-> <<"ZOWNER", "ZCONTACT", "ZPERSON">>,
       values |-> <<"ZADDRESS", "ZVALUE", "ZEMAIL">>],
      [key |-> "addresses",
       tbls |-> <<"ZABCDPOSTALADDRESS", "ZPOSTALADDRESS", "ZADDRESS">>,
       owners |-> <<"ZOWNER", "ZCONTACT", "ZPERSON">>,
       values |-> <<"ZSTREET", "ZVALUE", "ZFULLADDRESS">>],
      [key |-> "urls",
       tbls |-> <<"ZABCDURLADDRESS", "ZURLADDRESS", "ZURL">>,
       owners |-> <<"ZOWNER", "ZCONTACT", "ZPERSON">>,
       values |-> <<"ZURL", "ZVALUE">>]>>

\* `next((c for c in cands if c in cols), None)`, lines 239-240
first_present(cands, cols) == pick_col(cols, cands)

\* a table with an owner column is taken, whatever its value columns
qualifies_owner_only(o, v) == o # NoCol

\* `if o and v`, line 241
qualifies(o, v) == o # NoCol /\ v # NoCol

NotFound == <<None, None, None>>

\* The column sets a child table of relation d may have
ChildColumnSets(d) == SUBSET {d.owners[1], d.owners[3], d.values[1], d.values[2]}

\* The child tables a database may hold for relation d: any of the candidate
\* names, each with one of the column sets
ChildSchemas(d) ==
    UNION {[names -> ChildColumnSets(d)] : names \in SUBSET SeqRange(d.tbls)}

LocateInit ==
    /\ pc = "c_probe"
    /\ c_key \in 1..Len(map_defs)
    /\ c_schema \in ChildSchemas(map_defs[c_key])
    /\ c_i = 1
    /\ c_found = <<>>
    /\ contacts = <<>>
    /\ LegacyIdle
    /\ ModernIdle
    /\ ResolverIdle
    /\ DetectIdle
    /\ ProjectIdle
    /\ QueriesIdle
    /\ MainIdle
    /\ ManifestIdle
    /\ RowsIdle
    /\ EscapeIdle
    /\ RepeatIdle

\* lines 236-242: one iteration of `for t in tbls`
ProbeChildTable ==
    /\ pc = "c_probe"
    /\ c_i <= Len(map_defs[c_key].tbls)
    /\ LET d == map_defs[c_key]
           t == d.tbls[c_i]
       IN IF table_exists(DOMAIN c_schema, t)
               /\ qualifies(first_present(d.owners, c_schema[t]),
                            first_present(d.values, c_schema[t]))
            THEN /\ c_found' = <<Str(t), Str(first_present(d.owners, c_schema[t])),
                                 Str(first_present(d.values, c_schema[t]))>>
                 /\ pc' = "c_done"
                 /\ c_i' = c_i
            ELSE /\ c_i' = c_i + 1
                 /\ UNCHANGED <<pc, c_found>>
    /\ UNCHANGED <<c_key, c_schema, contacts>>
    /\ UNCHANGED <<legacyVars, modernVars, resolverVars, detectVars, projVars, queryVars, mainVars, manifestVars, rowsVars, escapeVars, repeatVars>>

\* line 243: the candidates are exhausted
ReturnNotFound ==
    /\ pc = "c_probe"
    /\ c_i > Len(map_defs[c_key].tbls)
    /\ c_found' = NotFound
    /\ pc' = "c_done"
    /\ UNCHANGED <<c_key, c_schema, c_i, contacts>>
    /\ UNCHANGED <<legacyVars, modernVars, resolverVars, detectVars, projVars, queryVars, mainVars, manifestVars, rowsVars, escapeVars, repeatVars>>

LocateNext == ProbeChildTable \/ ReturnNotFound

SpecLocate == LocateInit /\ [][LocateNext]_vars

-----------------------------------------------------------------------------
(* Properties of locate_child                                              *)

\* c is the first of cands among the columns of the existing table t
FirstAmong(cands, t, c) ==
    \E i \in 1..Len(cands) :
        /\ cands[i] = c
        /\ c \in c_schema[t]
        /\ \A j \in 1..(i - 1) : cands[j] \notin c_schema[t]

\* candidate table number i exists and has both roles
Qualifies(i) ==
    LET d == map_defs[c_key]
    IN /\ d.tbls[i] \in DOMAIN c_schema
       /\ \E c \in c_schema[d.tbls[i]] : \E k \in 1..Len(d.owners) : d.owners[k] = c
       /\ \E c \in c_schema[d.tbls[i]] : \E k \in 1..Len(d.values) : d.values[k] = c

\* C12: locate_child returns the first candidate table that exists and has
\* both an owner and a value column, each the first alias present; tables
\* lacking a role are passed over; when no table qualifies all three
\* components are None.
C12_FirstTableWithBothRoles ==
    pc = "c_done" =>
        LET d == map_defs[c_key]
        IN /\ (\E i \in 1..Len(d.tbls) : Qualifies(i)) =>
                 \E i \in 1..Len(d.tbls) :
                    /\ Qualifies(i)
                    /\ \A j \in 1..(i - 1) : ~Qualifies(j)
                    /\ c_found[1] = Str(d.tbls[i])
                    /\ c_found[2] # None /\ FirstAmong(d.owners, d.tbls[i], c_found[2].v)
                    /\ c_found[3] # None /\ FirstAmong(d.values, d.tbls[i], c_found[3].v)
           /\ (\A i \in 1..Len(d.tbls) : ~Qualifies(i)) => c_found = NotFound
           /\ c_found = NotFound \/ \A k \in 1..3 : c_found[k] # None

\* the first candidate exists with an owner column only, the second is
\* absent, the third has both roles and is returned
C12_Witness ==
    /\ pc = "c_done"
    /\ c_key = 1
    /\ DOMAIN c_schema = {"ZABCDPHONENUMBER", "ZABPHONE"}
    /\ c_schema["ZABCDPHONENUMBER"] = {"ZOWNER"}
    /\ c_schema["ZABPHONE"] = {"ZPERSON", "ZFULLNUMBER", "ZVALUE"}
    /\ c_found = <<Str("ZABPHONE"), Str("ZPERSON"), Str("ZFULLNUMBER")>>

-----------------------------------------------------------------------------
(* load_contacts_from_ab_schema: the three queries and norm_label          *)

MaxLabels == 2               \* rows of ABMultiValueLabel

\* SQLite resolves a table or column name in a statement without regard to
\* letter case
sql_resolves(names, name) == \E n \in names : Lower(n) = Lower(name)

\* lines 97-98: the columns the person query names
person_columns == {"First", "Last", "Middle", "Organization", "Note"}

\* `{r["name"].lower() for r in ...}`, line 111
lower_names(cols) == {Lower(c) : c \in cols}

\* line 112
label_col_of(cols) ==
    IF "label" \in lower_names(cols) THEN "label"
    ELSE IF "value" \in lower_names(cols) THEN "value" ELSE NoCol

\* the map is built without regard to the stored text
label_map_ids_only(rws) == [i \in {i \in 1..Len(rws) : ~IsNone(rws[i])} |-> StrInt(i)]

\* lines 114-116: ROWID -> text for the rows whose text is not NULL
label_map_of(rws) == [i \in {i \in 1..Len(rws) : ~IsNone(rws[i])} |-> PyStr(rws[i])]

\* The legacy databases a run may read
LegacyTableSets ==
    {{p} \cup o : p \in {"ABPerson", "abperson"}, o \in SUBSET {"ABMultiValueLabel", "ABMultiValue"}}

PersonColumnSets == {person_columns, person_columns \ {"Middle"}}

LabelColumnSets == {{"label"}, {"Value"}, {"other"}}

LabelTexts == {SqlNull, SqlText(" iPhone"), SqlText("E-Mail")}

LabelTables == UNION {[1..n -> LabelTexts] : n \in 0..MaxLabels}

RawLabels == {SqlNull, SqlInt(1), SqlInt(2), SqlText(" Mobile ")}

QueriesInit ==
    /\ pc = "l_persons"
    /\ l_tables \in LegacyTableSets
    /\ l_person_cols \in PersonColumnSets
    /\ IF "ABMultiValueLabel" \in l_tables
         THEN /\ l_label_cols \in LabelColumnSets
              /\ l_label_rows \in LabelTables
              /\ l_unreadable \in BOOLEAN
         ELSE l_label_cols = {} /\ l_label_rows = <<>> /\ l_unreadable = FALSE
    /\ l_raw \in RawLabels
    /\ l_label = None /\ l_error = None
    /\ contacts = <<>>
    /\ LegacyIdle
    /\ ModernIdle
    /\ ResolverIdle
    /\ DetectIdle
    /\ ProjectIdle
    /\ LocateIdle
    /\ MainIdle
    /\ ManifestIdle
    /\ RowsIdle
    /\ EscapeIdle
    /\ RepeatIdle

\* lines 96-105: the person query, retried with the lowercase table name
QueryLegacyPersons ==
    /\ pc = "l_persons"
    /\ IF \/ sql_resolves(l_tables, "ABPerson") /\ person_columns \subseteq l_person_cols
          \/ sql_resolves(l_tables, "abperson") /\ person_columns \subseteq l_person_cols
         THEN /\ persons' \in PersonTables
              /\ pc' = "l_labels"
              /\ l_error' = l_error
         ELSE /\ l_error' = Str("sqlite3.OperationalError")
              /\ pc' = "l_raised"
              /\ persons' = persons
    /\ UNCHANGED <<label_map, n_rows, cur, phones, emails, addresses, urls>>
    /\ UNCHANGED <<l_tables, l_person_cols, l_label_cols, l_label_rows, l_unreadable, l_raw, l_label>>
    /\ UNCHANGED <<contacts, modernVars, resolverVars, detectVars, projVars, locateVars, mainVars, manifestVars, rowsVars, escapeVars, repeatVars>>

\* lines 107-118: the label lookup table, read if it exists; a DatabaseError
\* is swallowed
LoadLabelMap ==
    /\ pc = "l_labels"
    /\ label_map' =
         IF table_exists(l_tables, "ABMultiValueLabel") /\ ~l_unreadable
               /\ label_col_of(l_label_cols) # NoCol
         THEN label_map_of(l_label_rows)
         ELSE label_map
    /\ pc' = "l_mv"
    /\ UNCHANGED <<persons, n_rows, cur, phones, emails, addresses, urls>>
    /\ UNCHANGED <<l_tables, l_person_cols, l_label_cols, l_label_rows, l_unreadable, l_raw,
                   l_label, l_error>>
    /\ UNCHANGED <<contacts, modernVars, resolverVars, detectVars, projVars, locateVars, mainVars, manifestVars, rowsVars, escapeVars, repeatVars>>

\* lines 120-123: the multi-value query
QueryMultiValue ==
    /\ pc = "l_mv"
    /\ IF sql_resolves(l_tables, "ABMultiValue")
         THEN pc' = "l_norm" /\ l_error' = l_error
         ELSE pc' = "l_raised" /\ l_error' = Str("sqlite3.OperationalError")
    /\ UNCHANGED <<legacyVars, mainVars, manifestVars, rowsVars, escapeVars, repeatVars>>
    /\ UNCHANGED <<l_tables, l_person_cols, l_label_cols, l_label_rows, l_unreadable, l_raw, l_label>>
    /\ UNCHANGED <<contacts, modernVars, resolverVars, detectVars, projVars, locateVars, mainVars, manifestVars, rowsVars, escapeVars, repeatVars>>

\* line 148: norm_label on the label of a row
NormLabel ==
    /\ pc = "l_norm"
    /\ l_label' = Str(norm_label(label_map, l_raw))
    /\ pc' = "l_done"
    /\ UNCHANGED <<legacyVars, mainVars, manifestVars, rowsVars, escapeVars, repeatVars>>
    /\ UNCHANGED <<l_tables, l_person_cols, l_label_cols, l_label_rows, l_unreadable, l_raw, l_error>>
    /\ UNCHANGED <<contacts, modernVars, resolverVars, detectVars, projVars, locateVars, mainVars, manifestVars, rowsVars, escapeVars, repeatVars>>

QueriesNext == QueryLegacyPersons \/ LoadLabelMap \/ QueryMultiValue \/ NormLabel

SpecQueries == QueriesInit /\ [][QueriesNext]_vars

-----------------------------------------------------------------------------
(* Properties of the legacy queries and of norm_label                      *)

\* C13 (legacy family): when the multi-value table is absent from a database
\* whose person table is complete, the loader does not fail.
C13_MissingMultiValueTolerated ==
    ("ABMultiValue" \notin l_tables /\ person_columns \subseteq l_person_cols)
        => pc # "l_raised"

\* the lookup table exists, can be read, has a label or value column and
\* stores a text under ROWID id
HasEntry(id) ==
    /\ "ABMultiValueLabel" \in l_tables
    /\ ~l_unreadable
    /\ \E c \in l_label_cols : Lower(c) \in {"label", "value"}
    /\ id \in 1..Len(l_label_rows)
    /\ ~IsNone(l_label_rows[id])

Normalized(x) == Lower(x) = x /\ Strip(x) = x

\* C15: a numeric label id becomes the text stored for it in the lookup table
\* when there is such an entry, and its decimal string otherwise (no entry,
\* table absent or unreadable); a null label becomes ''; the outcome is always
\* a lowercase trimmed string, up to letter case and surrounding blanks the
\* stored text, and norm_label never raises.
C15_LabelResolvedOrDecimal ==
    /\ pc = "l_norm" => l_error = None
    /\ pc = "l_done" =>
          /\ l_error = None
          /\ l_label # None
          /\ Normalized(l_label.v)
          /\ IsNone(l_raw) => l_label.v = ""
          /\ (IsInt(l_raw) /\ HasEntry(l_raw.v)) =>
                l_label.v = Lower(Strip(l_label_rows[l_raw.v].v))
          /\ (IsInt(l_raw) /\ ~HasEntry(l_raw.v)) => l_label.v = StrInt(l_raw.v)

\* id 1 is resolved through the table and id 2, stored with a NULL text, is not
C15_Witness ==
    /\ pc = "l_done"
    /\ l_label_cols = {"Value"}
    /\ l_label_rows = <<SqlText(" iPhone"), SqlNull>>
    /\ l_raw = SqlInt(2)
    /\ l_label = Str("2")
    /\ label_map = label_map_of(l_label_rows)
    /\ norm_label(label_map, SqlInt(1)) = "iphone"

-----------------------------------------------------------------------------
(* Properties of the value-shape fallback                                  *)

\* the shape of a row's value read as text: "emails" with an "@", else
\* "phones" with 7 digit characters or more, else ""
ShapeRule(r) ==
    IF Contains("@", PyStr(r.value)) THEN "emails"
    ELSE IF DigitCount(PyStr(r.value)) >= 7 THEN "phones"
    ELSE ""

ShapeRuleTable == [r \in MVRows |-> IF HasValue(r) THEN ShapeRule(r) ELSE ""]

\* C14: a row with a non-empty value that matches no label/property rule goes
\* to emails if its value contains "@", otherwise to phones if the value has at
\* least 7 digit characters, and otherwise into none of the four collections;
\* a row that matches a label/property rule is not reclassified by shape.
C14_ShapeFallback ==
    [][ClassifyStep =>
         LET rule  == FirstRuleTable[label_map][cur]
             shape == ShapeRuleTable[cur]
             rid   == cur.record_id
         IN /\ (HasValue(cur) /\ rule = "") =>
                  /\ IF shape = "emails" THEN GrewAt(emails, emails', rid) ELSE emails' = emails
                  /\ IF shape = "phones" THEN GrewAt(phones, phones', rid) ELSE phones' = phones
                  /\ addresses' = addresses /\ urls' = urls
            /\ (HasValue(cur) /\ rule = "urls") =>
                  /\ GrewAt(urls, urls', rid)
                  /\ emails' = emails /\ phones' = phones]_vars

-----------------------------------------------------------------------------
(* main: one run of the contacts extractor                                 *)

\* main returns: the interpreter exits with status 0
exit_success == 0

\* sys.exit(1) and the status of an uncaught exception report success
exit_failure_zero == exit_success

\* sys.exit(1), lines 383 and 393; CPython also exits with 1 on an uncaught
\* exception
exit_failure == 1

Exited(k) == [kind |-> "exit", code |-> k]

Exc(name) == Str(name)

\* sqlite3.connect(path): read, write and create
connect_mode == "rwc"

\* the finally clause runs only when no exception is in flight
close_if_returned(state, exc) == IF exc = None THEN "closed" ELSE state

\* conn.close() in a finally clause: whatever is in flight
finally_close(state, exc) == "closed"

\* pick_best_contacts_db on a readable catalog, lines 334-360
pick_best_contacts_db(dir, files, fs) ==
    LET cands == unique(Matches(files, 1) \o Matches(files, 2) \o Matches(files, 3)
                            \o Matches(files, 4))
    IN IF cands = <<>> THEN no_candidates_result
       ELSE LET path == backup_file_path(dir, best_of(cands).fileID)
            IN IF path \notin fs THEN missing_file_result ELSE Str(path)

\* what read_contacts_from_db raises, "" when it returns
read_contacts_failure(file, names, cols_ok) ==
    IF file = "not_a_database" THEN "sqlite3.DatabaseError"
    ELSE IF table_exists(names, "ABPerson") \/ table_exists(names, "abperson")
    THEN IF ~cols_ok THEN "sqlite3.OperationalError"
         ELSE IF ~sql_resolves(names, "ABMultiValue") THEN "sqlite3.OperationalError"
         ELSE ""
    ELSE IF \A i \in 1..Len(candidate_person_tables) :
                ~table_exists(names, candidate_person_tables[i])
    THEN "RuntimeError"
    ELSE IF ~cols_ok THEN "sqlite3.OperationalError"
    ELSE ""

CatalogFiles == {"missing", "ok", "not_a_database", "no_files_table"}

MainManifests ==
    {<<>>,
     <<[fileID |-> "ab12", relativePath |-> "Library/AddressBook/AddressBook.sqlitedb"]>>,
     <<[fileID |-> "ab12", relativePath |-> "Library/SMS/sms.db"]>>}

MainDisks == {{}, {"/b/ab/ab12"}}

MainSchemas ==
    {{}, {"ABPerson", "ABMultiValue"}, {"ABPerson"}, {"ABPERSON", "ABMultiValue"}, {"ZCONTACT"}}

MainInit ==
    /\ pc = "main_find"
    /\ catalog_file \in CatalogFiles
    /\ manifest \in MainManifests
    /\ disk \in MainDisks
    /\ record_file \in {"ok", "not_a_database"}
    /\ tables \in MainSchemas
    /\ record_cols_ok \in BOOLEAN
    /\ record_empty \in BOOLEAN
    /\ writable \in BOOLEAN
    /\ backup_dir = ResolveDir
    /\ catalog_conn = "none" /\ catalog_mode = "" /\ record_mode = ""
    /\ exit_status = None /\ stderr = ""
    /\ file_id = "" /\ db_path = None /\ pat = 0 /\ rows = <<>> /\ candidates = <<>>
    /\ best = NoEntry /\ result = None
    /\ conn = "none" /\ probe = 0 /\ loader = "" /\ person_table = None /\ raised = None
    /\ contacts = <<>>
    /\ LegacyIdle
    /\ ModernIdle
    /\ ProjectIdle
    /\ LocateIdle
    /\ QueriesIdle
    /\ ManifestIdle
    /\ RowsIdle
    /\ EscapeIdle
    /\ RepeatIdle

\* lines 379-383
FindManifest ==
    /\ pc = "main_find"
    /\ IF catalog_file = "missing"
         THEN /\ stderr' = "error"
              /\ exit_status' = Exited(exit_failure)
              /\ pc' = "main_exit"
         ELSE /\ pc' = "main_open"
              /\ UNCHANGED <<stderr, exit_status>>
    /\ UNCHANGED <<catalog_file, record_file, record_cols_ok, record_empty, writable,
                   catalog_conn, catalog_mode, record_mode>>
    /\ UNCHANGED <<contacts, legacyVars, modernVars, resolverVars, detectVars, projVars,
                   locateVars, queryVars, manifestVars, rowsVars, escapeVars, repeatVars>>

\* line 385
OpenCatalog ==
    /\ pc = "main_open"
    /\ catalog_conn' = "open"
    /\ catalog_mode' = connect_mode
    /\ pc' = "main_pick"
    /\ UNCHANGED <<catalog_file, record_file, record_cols_ok, record_empty, writable,
                   record_mode, exit_status, stderr>>
    /\ UNCHANGED <<contacts, legacyVars, modernVars, resolverVars, detectVars, projVars,
                   locateVars, queryVars, manifestVars, rowsVars, escapeVars, repeatVars>>

\* lines 386-387: the first query raises on a file that is not a database or
\* has no Files table
PickBest ==
    /\ pc = "main_pick"
    /\ IF catalog_file = "ok"
         THEN /\ result' = pick_best_contacts_db(backup_dir, manifest, disk)
              /\ raised' = raised
         ELSE /\ raised' = Exc(IF catalog_file = "not_a_database" THEN "sqlite3.DatabaseError"
                               ELSE "sqlite3.OperationalError")
              /\ result' = result
    /\ pc' = "main_finally"
    /\ UNCHANGED <<backup_dir, file_id, db_path, manifest, disk, pat, rows, candidates, best>>
    /\ UNCHANGED <<tables, conn, probe, loader, person_table>>
    /\ UNCHANGED <<contacts, legacyVars, modernVars, projVars, locateVars, queryVars, mainVars, manifestVars, rowsVars, escapeVars, repeatVars>>

\* lines 388-389, then the exception, if any, leaves main
CloseCatalog ==
    /\ pc = "main_finally"
    /\ catalog_conn' = finally_close(catalog_conn, raised)
    /\ IF raised # None
         THEN /\ stderr' = "traceback"
              /\ exit_status' = Exited(exit_failure)
              /\ pc' = "main_exit"
         ELSE /\ pc' = "main_check"
              /\ UNCHANGED <<stderr, exit_status>>
    /\ UNCHANGED <<catalog_file, record_file, record_cols_ok, record_empty, writable,
                   catalog_mode, record_mode>>
    /\ UNCHANGED <<contacts, legacyVars, modernVars, resolverVars, detectVars, projVars,
                   locateVars, queryVars, manifestVars, rowsVars, escapeVars, repeatVars>>

\* lines 391-393
CheckDbPath ==
    /\ pc = "main_check"
    /\ IF result = None
         THEN /\ stderr' = "error"
              /\ exit_status' = Exited(exit_failure)
              /\ pc' = "main_exit"
         ELSE /\ pc' = "main_read"
              /\ UNCHANGED <<stderr, exit_status>>
    /\ UNCHANGED <<catalog_file, record_file, record_cols_ok, record_empty, writable,
                   catalog_conn, catalog_mode, record_mode>>
    /\ UNCHANGED <<contacts, legacyVars, modernVars, resolverVars, detectVars, projVars,
                   locateVars, queryVars, manifestVars, rowsVars, escapeVars, repeatVars>>

\* line 275
OpenRecord ==
    /\ pc = "main_read"
    /\ conn' = "open"
    /\ record_mode' = connect_mode
    /\ pc' = "main_load"
    /\ UNCHANGED <<tables, probe, loader, person_table, raised>>
    /\ UNCHANGED <<catalog_file, record_file, record_cols_ok, record_empty, writable,
                   catalog_conn, catalog_mode, exit_status, stderr>>
    /\ UNCHANGED <<contacts, legacyVars, modernVars, resolverVars, projVars, locateVars, queryVars, manifestVars, rowsVars, escapeVars, repeatVars>>

\* lines 276-279: the schema is detected and a loader returns or raises
LoadContacts ==
    /\ pc = "main_load"
    /\ LET failure == read_contacts_failure(record_file, tables, record_cols_ok)
       IN /\ raised' = IF failure = "" THEN raised ELSE Exc(failure)
          /\ contacts' = IF failure = "" /\ ~record_empty THEN <<[id |-> 1]>> ELSE contacts
    /\ loader' = IF record_file # "ok" THEN loader
                 ELSE IF table_exists(tables, "ABPerson") \/ table_exists(tables, "abperson")
                 THEN "load_contacts_from_ab_schema"
                 ELSE "load_contacts_from_coredata_schema"
    /\ pc' = "main_close"
    /\ UNCHANGED <<tables, conn, probe, person_table>>
    /\ UNCHANGED <<legacyVars, modernVars, resolverVars, projVars, locateVars, queryVars, mainVars, manifestVars, rowsVars, escapeVars, repeatVars>>

\* lines 280-281, then the exception, if any, leaves main
CloseRecord ==
    /\ pc = "main_close"
    /\ conn' = finally_close(conn, raised)
    /\ IF raised # None
         THEN /\ stderr' = "traceback"
              /\ exit_status' = Exited(exit_failure)
              /\ pc' = "main_exit"
         ELSE /\ pc' = "main_export"
              /\ UNCHANGED <<stderr, exit_status>>
    /\ UNCHANGED <<tables, probe, loader, person_table, raised>>
    /\ UNCHANGED <<catalog_file, record_file, record_cols_ok, record_empty, writable,
                   catalog_conn, catalog_mode, record_mode>>
    /\ UNCHANGED <<contacts, legacyVars, modernVars, resolverVars, projVars, locateVars, queryVars, manifestVars, rowsVars, escapeVars, repeatVars>>

\* lines 396-412: the outputs are written and main returns
ExportContacts ==
    /\ pc = "main_export"
    /\ IF writable
         THEN /\ exit_status' = Exited(exit_success)
              /\ UNCHANGED <<stderr, raised>>
         ELSE /\ raised' = Exc("OSError")
              /\ stderr' = "traceback"
              /\ exit_status' = Exited(exit_failure)
    /\ pc' = "main_exit"
    /\ UNCHANGED <<tables, conn, probe, loader, person_table>>
    /\ UNCHANGED <<catalog_file, record_file, record_cols_ok, record_empty, writable,
                   catalog_conn, catalog_mode, record_mode>>
    /\ UNCHANGED <<contacts, legacyVars, modernVars, resolverVars, projVars, locateVars, queryVars, manifestVars, rowsVars, escapeVars, repeatVars>>

MainNext ==
    \/ FindManifest \/ OpenCatalog \/ PickBest \/ CloseCatalog \/ CheckDbPath
    \/ OpenRecord \/ LoadContacts \/ CloseRecord \/ ExportContacts

SpecMain == MainInit /\ [][MainNext]_vars

-----------------------------------------------------------------------------
(* Properties of a run of main                                             *)

\* C16: every connection main's run opens is closed when its owning step is
\* left, by return or by exception: the catalog connection once
\* pick_best_contacts_db is over, the record connection once
\* read_contacts_from_db is over; the catalog connection is closed before the
\* record database is opened, and none is open when the process exits.
C16_ConnectionsReleased ==
    /\ pc \in {"main_check", "main_read", "main_load", "main_close", "main_export"}
          => catalog_conn = "closed"
    /\ conn = "open" => catalog_conn = "closed"
    /\ pc = "main_export" => conn = "closed"
    /\ pc = "main_exit" => catalog_conn # "open" /\ conn # "open"

\* the loader raised, and both connections are closed at exit
C16_Witness ==
    /\ pc = "main_exit"
    /\ raised = Exc("RuntimeError")
    /\ loader = "load_contacts_from_coredata_schema"
    /\ catalog_conn = "closed"
    /\ conn = "closed"

\* C18: every connection to the catalog or to a record database is opened
\* read-only.
C18_ReadOnlyConnections ==
    /\ catalog_conn = "open" => catalog_mode = "ro"
    /\ conn = "open" => record_mode = "ro"

CatalogMissing == catalog_file = "missing"

\* the catalog is readable and no matching entry has its file on disk
NoRecordDb ==
    /\ catalog_file = "ok"
    /\ \A i \in 1..Len(manifest) :
          MatchesAny(manifest[i]) => AddressedPath(backup_dir, manifest[i].fileID) \notin disk

RecordDbRead == catalog_file = "ok" /\ ~NoRecordDb /\ record_file = "ok"

\* the record database holds no person table of either family, whatever the
\* letter case of the legacy name
SchemaUnrecognized ==
    /\ RecordDbRead
    /\ \A t \in tables : Lower(t) # "abperson" /\ t \notin ModernNames

\* the record database holds no table under one of the names that are tested
NoPersonTableFound ==
    /\ RecordDbRead
    /\ \A t \in tables : t \notin SeqRange(legacy_person_tables) \cup ModernNames

\* a database or output operation of the run fails
OperationFails ==
    \/ catalog_file \in {"not_a_database", "no_files_table"}
    \/ /\ catalog_file = "ok" /\ ~NoRecordDb
       /\ \/ record_file = "not_a_database"
          \/ ~record_cols_ok
          \/ /\ \E t \in tables : t \in SeqRange(legacy_person_tables)
             /\ \A t \in tables : Lower(t) # "abmultivalue"
          \/ ~writable

ExitsNonZeroWithDiagnostic == exit_status # Exited(0) /\ exit_status # None /\ stderr # ""

C20_NoRawFault ==
    pc = "main_exit" =>
        raised \notin {Exc("sqlite3.DatabaseError"), Exc("sqlite3.OperationalError"),
                       Exc("OSError")}

-----------------------------------------------------------------------------
(* parse_manifest: the catalog loader of the rescue tool                   *)

\* utils.open_sqlite: sqlite3.connect("file:<path>?mode=ro", uri=True)
utils_connect_mode == "ro"

\* line 20: the table names tried in turn
manifest_table_candidates == <<"Files", "file", "FILE">>

\* lines 49-51: relativePath -> entry, a later row replacing an earlier one
index_of(rws) ==
    [p \in {rws[i].relativePath : i \in 1..Len(rws)} |->
        [fileID |-> rws[CHOOSE i \in 1..Len(rws) :
                          rws[i].relativePath = p
                          /\ \A j \in (i + 1)..Len(rws) : rws[j].relativePath # p].fileID]]

CatalogTableNames == {"", "Files", "file", "FILE", "files"}

CatalogManifests ==
    MainManifests \cup
    {<<[fileID |-> "ab12", relativePath |-> "Library/AddressBook/AddressBook.sqlitedb"],
       [fileID |-> "cd34", relativePath |-> "Library/AddressBook/AddressBook.sqlitedb"]>>}

ManifestInit ==
    /\ pc = "pm_find"
    /\ pm_found \in BOOLEAN
    /\ pm_catalog_table \in CatalogTableNames
    /\ pm_cols_ok \in BOOLEAN
    /\ pm_writable \in BOOLEAN
    /\ manifest \in CatalogManifests
    /\ pm_conn = "none" /\ pm_mode = "" /\ pm_cand = 0 /\ pm_table = None /\ pm_rows = <<>>
    /\ pm_index = None /\ pm_raised = None
    /\ backup_dir = "" /\ file_id = "" /\ db_path = None /\ disk = {}
    /\ pat = 0 /\ rows = <<>> /\ candidates = <<>> /\ best = NoEntry /\ result = None
    /\ contacts = <<>>
    /\ LegacyIdle
    /\ ModernIdle
    /\ DetectIdle
    /\ ProjectIdle
    /\ LocateIdle
    /\ QueriesIdle
    /\ MainIdle
    /\ RowsIdle
    /\ EscapeIdle
    /\ RepeatIdle

\* lines 8-14
FindCatalog ==
    /\ pc = "pm_find"
    /\ IF pm_found
         THEN pc' = "pm_open" /\ pm_raised' = pm_raised
         ELSE pc' = "pm_raised" /\ pm_raised' = Exc("FileNotFoundError")
    /\ UNCHANGED <<pm_found, pm_catalog_table, pm_cols_ok, pm_writable, pm_conn, pm_mode,
                   pm_cand, pm_table, pm_rows, pm_index>>
    /\ UNCHANGED <<contacts, legacyVars, modernVars, resolverVars, detectVars, projVars,
                   locateVars, queryVars, mainVars, rowsVars, escapeVars, repeatVars>>

\* lines 16-17
OpenManifest ==
    /\ pc = "pm_open"
    /\ pm_conn' = "open"
    /\ pm_mode' = utils_connect_mode
    /\ pm_cand' = 1
    /\ pc' = "pm_probe"
    /\ UNCHANGED <<pm_found, pm_catalog_table, pm_cols_ok, pm_writable, pm_table, pm_rows,
                   pm_index, pm_raised>>
    /\ UNCHANGED <<contacts, legacyVars, modernVars, resolverVars, detectVars, projVars,
                   locateVars, queryVars, mainVars, rowsVars, escapeVars, repeatVars>>

\* lines 20-25: one iteration of `for cand in ("Files", "file", "FILE")`
ProbeCatalogTable ==
    /\ pc = "pm_probe"
    /\ pm_cand <= Len(manifest_table_candidates)
    /\ IF pm_catalog_table # ""
            /\ sql_resolves({pm_catalog_table}, manifest_table_candidates[pm_cand])
         THEN /\ pm_table' = Str(manifest_table_candidates[pm_cand])
              /\ pc' = "pm_rows"
              /\ pm_cand' = pm_cand
         ELSE /\ pm_cand' = pm_cand + 1
              /\ UNCHANGED <<pc, pm_table>>
    /\ UNCHANGED <<pm_found, pm_catalog_table, pm_cols_ok, pm_writable, pm_conn, pm_mode,
                   pm_rows, pm_index, pm_raised>>
    /\ UNCHANGED <<contacts, legacyVars, modernVars, resolverVars, detectVars, projVars,
                   locateVars, queryVars, mainVars, rowsVars, escapeVars, repeatVars>>

\* lines 26-27
RaiseUnrecognizedCatalog ==
    /\ pc = "pm_probe"
    /\ pm_cand > Len(manifest_table_candidates)
    /\ pm_raised' = Exc("RuntimeError")
    /\ pc' = "pm_raised"
    /\ UNCHANGED <<pm_found, pm_catalog_table, pm_cols_ok, pm_writable, pm_conn, pm_mode,
                   pm_cand, pm_table, pm_rows, pm_index>>
    /\ UNCHANGED <<contacts, legacyVars, modernVars, resolverVars, detectVars, projVars,
                   locateVars, queryVars, mainVars, rowsVars, escapeVars, repeatVars>>

\* lines 29-41: both SELECTs name the same columns; when they fail the error
\* is swallowed and rows stays empty
ReadCatalogRows ==
    /\ pc = "pm_rows"
    /\ pm_rows' = IF pm_cols_ok THEN manifest ELSE <<>>
    /\ pc' = "pm_write"
    /\ UNCHANGED <<pm_found, pm_catalog_table, pm_cols_ok, pm_writable, pm_conn, pm_mode,
                   pm_cand, pm_table, pm_index, pm_raised>>
    /\ UNCHANGED <<contacts, legacyVars, modernVars, resolverVars, detectVars, projVars,
                   locateVars, queryVars, mainVars, rowsVars, escapeVars, repeatVars>>

\* lines 43-47
WriteCatalogOutputs ==
    /\ pc = "pm_write"
    /\ IF pm_writable
         THEN pc' = "pm_index" /\ pm_raised' = pm_raised
         ELSE pc' = "pm_raised" /\ pm_raised' = Exc("OSError")
    /\ UNCHANGED <<pm_found, pm_catalog_table, pm_cols_ok, pm_writable, pm_conn, pm_mode,
                   pm_cand, pm_table, pm_rows, pm_index>>
    /\ UNCHANGED <<contacts, legacyVars, modernVars, resolverVars, detectVars, projVars,
                   locateVars, queryVars, mainVars, rowsVars, escapeVars, repeatVars>>

\* lines 48-52
ReturnIndex ==
    /\ pc = "pm_index"
    /\ pm_index' = [kind |-> "dict", v |-> index_of(pm_rows)]
    /\ pc' = "pm_returned"
    /\ UNCHANGED <<pm_found, pm_catalog_table, pm_cols_ok, pm_writable, pm_conn, pm_mode,
                   pm_cand, pm_table, pm_rows, pm_raised>>
    /\ UNCHANGED <<contacts, legacyVars, modernVars, resolverVars, detectVars, projVars,
                   locateVars, queryVars, mainVars, rowsVars, escapeVars, repeatVars>>

ManifestNext ==
    \/ FindCatalog \/ OpenManifest \/ ProbeCatalogTable \/ RaiseUnrecognizedCatalog
    \/ ReadCatalogRows \/ WriteCatalogOutputs \/ ReturnIndex

SpecManifest == ManifestInit /\ [][ManifestNext]_vars

-----------------------------------------------------------------------------
(* Properties of parse_manifest                                            *)

\* C17: parse_manifest has closed the connection it opened when it returns
\* or raises, on every exit path.
C17_CatalogConnectionClosed ==
    (pc \in {"pm_returned", "pm_raised"} /\ pm_conn # "none") => pm_conn = "closed"

\* C21: parse_manifest fails, and returns no index, when the catalog file is
\* missing, when it has no file-listing table under one of the known names, or
\* when that table cannot be read for fileID, domain and relativePath; it
\* returns an index only for a catalog it could read.
C21_UnreadableCatalogFails ==
    /\ (~pm_found \/ pm_catalog_table = "" \/ ~pm_cols_ok) => pc # "pm_returned"
    /\ pc = "pm_returned" => pm_index # None /\ pm_raised = None

-----------------------------------------------------------------------------
(* Both loaders, with the ABMultiValue rows read kept on record            *)

MaxOwnedRows == 2

\* the rows of a small ABMultiValue table: unlabelled rows of two owners, with
\* the phone property, the address property or an unknown one, and a null, an
\* e-mail-shaped, a phone-shaped (padded) or a shapeless value
OwnedRows ==
    {r \in MVRows : /\ r.label = SqlNull
                    /\ r.property \in {0, 3, 6}
                    /\ r.value \in {SqlNull, SqlText("a@b"), SqlText("5551234 "), SqlText("x7")}}

\* `for r in mv_rows`, line 142, over the small table
FetchOwnedRow ==
    /\ pc = "fetch"
    /\ Len(mv_read) < MaxOwnedRows
    /\ cur' \in OwnedRows
    /\ mv_read' = Append(mv_read, cur')
    /\ n_rows' = n_rows + 1
    /\ pc' = "body"
    /\ UNCHANGED <<persons, label_map, phones, emails, addresses, urls, contacts>>
    /\ UNCHANGED <<modernVars, resolverVars, detectVars, projVars, locateVars, queryVars, mainVars, manifestVars, escapeVars, repeatVars>>

RelationsInit == LegacyInit \/ ModernInit

RelationsNext ==
    \/ FetchOwnedRow \/ ClassifyRow \/ NextRow \/ BuildContacts
    \/ QueryPersons \/ StartRelation \/ FetchChild \/ AppendChild \/ NextChild
    \/ EndRelation \/ BuildModern

SpecRelations == RelationsInit /\ [][RelationsNext]_vars

-----------------------------------------------------------------------------
(* Properties of the relation collections                                  *)

\* the ABMultiValue rows read that are owned by id and retained for rel, in
\* row order
RetainedRows(rel, id) ==
    SelectSeq(mv_read, LAMBDA r : r.record_id = id /\ DestTable[label_map][r] = rel)

\* the child rows read for rel that are owned by id and hold a value, in row order
RetainedChildRows(rel, id) ==
    SelectSeq(RowsOf(rel, id), LAMBDA r : ~IsNone(r.value))

\* C22: in both families each relation collection of a returned contact is the
\* sequence of the retained values of the source rows owned by that contact, in
\* source row order and with duplicates kept; a contact that owns no row of a
\* relation has the empty list for it.
C22_CollectionsFollowRows ==
    /\ pc = "returned" =>
          \A i \in 1..Len(contacts) : \A rel \in RelationSet :
              LET own == RetainedRows(rel, contacts[i].id)
              IN /\ Len(contacts[i][rel]) = Len(own)
                 /\ \A k \in 1..Len(own) : contacts[i][rel][k] = SvalTable[own[k]]
    /\ pc = "m_returned" =>
          \A i \in 1..Len(contacts) : \A rel \in RelationSet :
              LET own == RetainedChildRows(rel, contacts[i].id)
              IN /\ Len(contacts[i][rel]) = Len(own)
                 /\ \A k \in 1..Len(own) : contacts[i][rel][k] = PyStr(own[k].value)

\* person 1 owns two retained phone rows with the same value and no other row:
\* the value is listed twice and the other collections are empty
C22_Witness ==
    /\ pc = "returned"
    /\ Len(mv_read) = 2 /\ mv_read[1] = mv_read[2]
    /\ mv_read[1].record_id = 1 /\ mv_read[1].property = 3
    /\ contacts[1].id = 1
    /\ contacts[1].phones = <<"5551234", "5551234">>
    /\ contacts[1].emails = <<>>

\* the number of values the four collections hold for owner id
Held(id) == Len(phones[id]) + Len(emails[id]) + Len(addresses[id]) + Len(urls[id])

\* the number of ABMultiValue rows read whose owner is id
OwnedCount(id) == Cardinality({k \in 1..Len(mv_read) : mv_read[k].record_id = id})

\* C26: in the legacy loader a multi-value row adds its value to at most one of
\* the four collections and only under its own owner id, so a contact holds
\* only values of rows it owns, at most one per row, and a row whose owner
\* matches no person row shows up in no contact.
C26_RowsStayWithOwner ==
    /\ \A id \in RecordIds : Held(id) <= OwnedCount(id)
    /\ pc = "returned" =>
          \A i \in 1..Len(contacts) :
              /\ Len(contacts[i].phones) + Len(contacts[i].emails)
                     + Len(contacts[i].addresses) + Len(contacts[i].urls)
                   <= OwnedCount(contacts[i].id)
              /\ \A rel \in RelationSet : \A e \in 1..Len(contacts[i][rel]) :
                    \E k \in 1..Len(mv_read) :
                        /\ mv_read[k].record_id = contacts[i].id
                        /\ ~IsNone(mv_read[k].value)
                        /\ SvalTable[mv_read[k]] = contacts[i][rel][e]

\* the only person is 1 and the only rows read belong to owner 2: their values
\* were collected under 2 and the returned contact holds nothing
C26_Witness ==
    /\ pc = "returned"
    /\ persons = <<1>>
    /\ Len(mv_read) = 2
    /\ \A k \in 1..Len(mv_read) : mv_read[k].record_id = 2
    /\ Held(2) = 2
    /\ Len(contacts) = 1
    /\ \A rel \in RelationSet : contacts[1][rel] = <<>>

-----------------------------------------------------------------------------
(* vcard_escape                                                            *)

MaxFieldLen == 3

Backslash == "\\"
Newline == "\n"

\* the characters the fields are drawn from: the four the function rewrites
\* and two it leaves alone, one of them the letter n
FieldChars == {Backslash, ";", ",", Newline, "n", "a"}

RECURSIVE FieldsOfLen(_)
FieldsOfLen(k) ==
    IF k = 0 THEN {""} ELSE {s \o c : s \in FieldsOfLen(k - 1), c \in FieldChars}

\* the arguments export_vcf passes, lines 312-331: None or a str
Fields == {None} \cup {Str(s) : s \in UNION {FieldsOfLen(k) : k \in 0..MaxFieldLen}}

\* s.replace(old, new) for a non-empty old: the non-overlapping occurrences of
\* old, found from the left, are replaced by new
RECURSIVE replace(_, _, _)
replace(s, old, new) ==
    IF Len(s) < Len(old) THEN s
    ELSE IF SubSeq(s, 1, Len(old)) = old
         THEN new \o replace(SubSeq(s, Len(old) + 1, Len(s)), old, new)
         ELSE SubSeq(s, 1, 1) \o replace(SubSeq(s, 2, Len(s)), old, new)

\* `s or ""` for a None or str argument
str_or_empty(s) == IF s = None THEN "" ELSE s.v

\* vcard_escape with the backslash replaced last instead of first
vcard_escape_backslash_last(s) ==
    replace(replace(replace(replace(str_or_empty(s),
        ";", Backslash \o ";"), ",", Backslash \o ","), Newline, Backslash \o "n"),
        Backslash, Backslash \o Backslash)

\* line 300: the four replace calls, left to right
vcard_escape(s) ==
    replace(replace(replace(replace(str_or_empty(s),
        Backslash, Backslash \o Backslash), ";", Backslash \o ";"),
        ",", Backslash \o ","), Newline, Backslash \o "n")

EscapeInit ==
    /\ pc = "esc_call"
    /\ esc_in \in Fields
    /\ esc_out = None
    /\ contacts = <<>>
    /\ LegacyIdle
    /\ ModernIdle
    /\ ResolverIdle
    /\ DetectIdle
    /\ ProjectIdle
    /\ LocateIdle
    /\ QueriesIdle
    /\ MainIdle
    /\ ManifestIdle
    /\ RowsIdle
    /\ RepeatIdle

\* one call of vcard_escape
VcardEscape ==
    /\ pc = "esc_call"
    /\ esc_out' = Str(vcard_escape(esc_in))
    /\ pc' = "esc_done"
    /\ UNCHANGED <<esc_in, contacts>>
    /\ UNCHANGED <<legacyVars, modernVars, resolverVars, detectVars, projVars, locateVars, queryVars, mainVars, manifestVars, rowsVars, repeatVars>>

EscapeNext == VcardEscape

SpecEscape == EscapeInit /\ [][EscapeNext]_vars

-----------------------------------------------------------------------------
(* Properties of vcard_escape                                              *)

\* what one character of the input becomes
EscapedChar(c) ==
    IF c \in {Backslash, ";", ","} THEN Backslash \o c
    ELSE IF c = Newline THEN Backslash \o "n"
    ELSE c

\* the input rewritten character by character, in order
RECURSIVE EscapedEach(_)
EscapedEach(s) ==
    IF s = "" THEN "" ELSE EscapedChar(SubSeq(s, 1, 1)) \o EscapedEach(SubSeq(s, 2, Len(s)))

\* the positions of s that hold one of the four rewritten characters
Rewritten(s) == {i \in 1..Len(s) : SubSeq(s, i, i) \in {Backslash, ";", ",", Newline}}

\* C23: vcard_escape puts exactly one backslash before every backslash,
\* semicolon and comma of its input and turns every newline into backslash and
\* n, keeping every other character and the order; a backslash of the input is
\* escaped once and the backslashes it introduces are not escaped again.
C23_EscapesEachCharacterOnce ==
    (pc = "esc_done" /\ esc_in # None) =>
        /\ esc_out = Str(EscapedEach(esc_in.v))
        /\ Len(esc_out.v) = Len(esc_in.v) + Cardinality(Rewritten(esc_in.v))

\* a backslash, a semicolon and a newline go in; five characters plus n come out
C23_Witness ==
    /\ pc = "esc_done"
    /\ esc_in = Str(Backslash \o ";" \o Newline)
    /\ esc_out = Str(Backslash \o Backslash \o Backslash \o ";" \o Backslash \o "n")

-----------------------------------------------------------------------------
(* pick_best_contacts_db called twice on one catalog and one directory     *)

\* the caller keeps the first result and calls pick_best_contacts_db again
\* with the same backup_dir and the same catalog; the files on disk are the same
CallAgain ==
    /\ pc = "r_done"
    /\ calls = 0
    /\ first_result' = result
    /\ calls' = 1
    /\ pat' = 1
    /\ rows' = <<>> /\ candidates' = <<>> /\ best' = NoEntry /\ result' = None
    /\ file_id' = "" /\ db_path' = None
    /\ pc' = "r_query"
    /\ UNCHANGED <<backup_dir, manifest, disk>>
    /\ UNCHANGED <<contacts, legacyVars, modernVars, detectVars, projVars, locateVars, queryVars, mainVars, manifestVars, rowsVars, escapeVars>>

RepeatNext ==
    \/ QueryPattern \/ Deduplicate \/ ReturnNoCandidates \/ ChooseBest
    \/ ReturnMissing \/ ReturnPath \/ CallAgain

SpecRepeat == ResolveInit /\ [][RepeatNext]_vars

-----------------------------------------------------------------------------
(* Properties of the candidate score and of the file check                 *)

\* the score as described: +10 for the primary database name or the word
\* "contacts", -5 for "images", +5 for the newer layout's
\* "application support/addressbook", plus the separators, all on the
\* lowercase path
DescribedScore ==
    [path \in Paths |->
        LET rp == Lower(path)
        IN (IF Contains("addressbook.sqlitedb", rp) \/ Contains("contacts", rp) THEN 10 ELSE 0)
           + (IF Contains("images", rp) THEN 0 - 5 ELSE 0)
           + (IF Contains("application support/addressbook", rp) THEN 5 ELSE 0)
           + Cardinality({i \in 1..Len(rp) : SubSeq(rp, i, i) = "/"})]

TopScored(k) ==
    /\ \A i \in 1..Len(candidates) :
          ScoreTable[candidates[i].relativePath] <= ScoreTable[candidates[k].relativePath]
    /\ \A i \in 1..(k - 1) :
          ScoreTable[candidates[i].relativePath] < ScoreTable[candidates[k].relativePath]

\* C25: only the top-scored candidate's file is looked for: when it is absent
\* no path is returned, whether or not another candidate's file is present,
\* and a returned path is the content-addressed path of a candidate of maximal
\* score whose file exists.
C25_OnlyTopCandidateChecked ==
    (pc = "r_done" /\ candidates # <<>>) =>
        /\ \A k \in 1..Len(candidates) :
              (TopScored(k) /\ AddressedPath(backup_dir, candidates[k].fileID) \notin disk)
                  => result = None
        /\ result # None =>
              \E k \in 1..Len(candidates) :
                  /\ \A i \in 1..Len(candidates) :
                        ScoreTable[candidates[i].relativePath]
                            <= ScoreTable[candidates[k].relativePath]
                  /\ result = Str(AddressedPath(backup_dir, candidates[k].fileID))
                  /\ result.v \in disk

\* the top-scored candidate's file is absent, the lower-scored candidate's
\* file is on disk, and nothing was returned
C25_Witness ==
    /\ pc = "r_done"
    /\ Len(candidates) = 2
    /\ ScoreTable[candidates[1].relativePath] < ScoreTable[candidates[2].relativePath]
    /\ AddressedPath(backup_dir, candidates[2].fileID) \notin disk
    /\ AddressedPath(backup_dir, candidates[1].fileID) \in disk
    /\ result = None

=========================================================================
